---- MODULE Spec2Model ----
(***************************************************************************)
(* Weight normalisation of the port labour-productivity pipeline:          *)
(*   - winsor_rebase and build_monthly_port_lp of Build_LP_Panel_S4.py,    *)
(*   - compute_w of the older builders build_lp_from_normalized.py,        *)
(*     build_lp_mixedfreq_v3.py and build_lp_mixedfreq_v4.py.              *)
(* Floating-point columns are modelled by exact rationals <<n, d>> in      *)
(* lowest terms with d > 0; NaN (a missing value) is the pair <<0, 0>>.    *)
(***************************************************************************)
EXTENDS Integers, Sequences, FiniteSets, TLC

(* ------------------------------ bounds --------------------------------- *)

\* the large (port, year) group has rows for the months 2 .. NMonths + 1
NMonths == 3

\* monthly tons are drawn from 0 .. MaxTons
MaxTons == 3

\* a ratio column handed to winsor_rebase is drawn from NaN and 0 .. MaxRatio
MaxRatio == 3

(* ---------------------------- exact numbers ---------------------------- *)

NaN == <<0, 0>>

isna(x) == x[2] = 0

notna(x) == x[2] # 0

Abs(n) == IF n < 0 THEN -n ELSE n

RECURSIVE GCD(_, _)
GCD(a, b) == IF b = 0 THEN a ELSE GCD(b, a % b)

Frac(n, d) ==
    IF d = 0 THEN NaN
    ELSE LET s == IF d < 0 THEN -1 ELSE 1
             g == GCD(Abs(n), Abs(d))
         IN  <<(s * n) \div g, (s * d) \div g>>

Num(n) == <<n, 1>>

add(a, b) == IF isna(a) \/ isna(b) THEN NaN ELSE Frac(a[1] * b[2] + b[1] * a[2], a[2] * b[2])

sub(a, b) == IF isna(a) \/ isna(b) THEN NaN ELSE Frac(a[1] * b[2] - b[1] * a[2], a[2] * b[2])

mul(a, b) == IF isna(a) \/ isna(b) THEN NaN ELSE Frac(a[1] * b[1], a[2] * b[2])

\* every division of the modelled code whose divisor can be zero is discarded
\* by the guard of the surrounding np.where, so x / 0 is left as NaN here
div(a, b) == IF isna(a) \/ isna(b) \/ b[1] = 0 THEN NaN ELSE Frac(a[1] * b[2], a[2] * b[1])

\* comparisons with NaN are False, as in numpy
lt(a, b) == notna(a) /\ notna(b) /\ a[1] * b[2] < b[1] * a[2]

le(a, b) == notna(a) /\ notna(b) /\ a[1] * b[2] <= b[1] * a[2]

gt0(a) == notna(a) /\ a[1] > 0

eq0(a) == notna(a) /\ a[1] = 0

(* ------------------------- pandas / numpy helpers ---------------------- *)

\* a computed column, held as a table of values (evaluated once)
Column(f) == f @@ << >>

\* a column computed once and then named: Only({e : v \in {c}}) is e with v = c
Only(S) == CHOOSE y \in S : TRUE

\* rows of a table that belong to one group of a groupby on key columns
GroupRows(R, key, k) == {x \in R : key[x] = k}

RECURSIVE SumOver(_, _)
SumOver(S, col) ==
    IF S = {} THEN Num(0)
    ELSE LET x == CHOOSE y \in S : TRUE
         IN  add(col[x], SumOver(S \ {x}, col))

\* Series.mean(): NaN entries are skipped, NaN when nothing is left
mean(S, col) ==
    LET F == {x \in S : notna(col[x])}
    IN  IF F = {} THEN NaN ELSE div(SumOver(F, col), Num(Cardinality(F)))

\* the non-missing values of a column, ascending
RECURSIVE Sorted(_, _)
Sorted(S, col) ==
    IF S = {} THEN << >>
    ELSE LET x == CHOOSE y \in S : \A z \in S : le(col[y], col[z])
         IN  <<col[x]>> \o Sorted(S \ {x}, col)

\* Series.quantile(q), linear interpolation between order statistics
quantile(S, col, q) ==
    LET F   == {x \in S : notna(col[x])}
        n   == Cardinality(F)
        xs  == Sorted(F, col)
        pos == q[1] * (n - 1)
        j   == pos \div q[2]
        rem == pos % q[2]
    IN  IF n = 0 THEN NaN
        ELSE IF rem = 0 THEN xs[j + 1]
        ELSE add(xs[j + 1], mul(Frac(rem, q[2]), sub(xs[j + 2], xs[j + 1])))

\* a clip that applies the upper bound only
clip_no_lower(x, lo, hi) == IF lt(hi, x) THEN hi ELSE x

\* Series.clip(lower, upper)
clip(x, lo, hi) ==
    LET y == IF lt(x, lo) THEN lo ELSE x
    IN  IF lt(hi, y) THEN hi ELSE y

(* --------------------- Build_LP_Panel_S4.py ---------------------------- *)

winsor_low == <<1, 100>>

winsor_high == <<99, 100>>

Quarters == <<"Q1", "Q2", "Q3", "Q4">>

q_from_m(m) == Quarters[((m - 1) \div 3) + 1]

\* initial rebase: np.where((r_clip > 0) & (r_mean > 0), r_clip / r_mean, nan)
rebase(r_clip, r_mean) ==
    IF gt0(r_clip) /\ gt0(r_mean) THEN div(r_clip, r_mean) ELSE NaN

\* the keys of the groups of a groupby
GroupKeys(R, key) == {key[x] : x \in R}

\* groupby(key)[col].mean(), one value per group
group_mean(R, key, col) ==
    Column([k \in GroupKeys(R, key) |-> mean(GroupRows(R, key, k), col)])

\* the second pass dividing by the groupwise sum instead of the mean
second_pass_sum(R, key, w) ==
    LET w_sum == Column([k \in GroupKeys(R, key) |->
                    LET F == {y \in GroupRows(R, key, k) : notna(w[y])}
                    IN  IF F = {} THEN NaN ELSE SumOver(F, w)])
    IN  Column([x \in R |->
            IF gt0(w_sum[key[x]]) /\ notna(w[x]) THEN div(w[x], w_sum[key[x]]) ELSE w[x]])

\* the second pass taking the groupwise mean of w.fillna(1.0)
second_pass_fillna(R, key, w) ==
    LET filled == Column([y \in R |-> IF isna(w[y]) THEN Num(1) ELSE w[y]])
        w_mean == group_mean(R, key, filled)
    IN  Column([x \in R |->
            IF gt0(w_mean[key[x]]) /\ notna(w[x]) THEN div(w[x], w_mean[key[x]]) ELSE w[x]])

\* second-pass exact normalisation: w / groupwise mean(w) where that mean is > 0
second_pass(R, key, w) ==
    LET w_mean == group_mean(R, key, w)
    IN  Column([x \in R |->
            IF gt0(w_mean[key[x]]) /\ notna(w[x]) THEN div(w[x], w_mean[key[x]]) ELSE w[x]])

\* groupby(key)[col].quantile([low, high]), one row q_low, q_high per group
group_quantiles(R, key, col, low, high) ==
    Column([k \in GroupKeys(R, key) |->
        [q_low  |-> quantile(GroupRows(R, key, k), col, low),
         q_high |-> quantile(GroupRows(R, key, k), col, high)]])

\* the clipped column r_clip of winsor_rebase
r_clip_of(R, key, r, low, high) ==
    LET qs == group_quantiles(R, key, r, low, high)
    IN  Column([x \in R |->
            LET q_low  == qs[key[x]].q_low
                q_high == qs[key[x]].q_high
            IN  IF notna(r[x]) /\ notna(q_low) /\ notna(q_high)
                THEN clip(r[x], q_low, q_high)
                ELSE r[x]])

\* the weights of winsor_rebase before the second pass
first_pass(R, key, r_clip) ==
    LET r_mean == group_mean(R, key, r_clip)
    IN  Column([x \in R |-> rebase(r_clip[x], r_mean[key[x]])])

winsor_rebase(R, key, r, low, high, enforce_unit_mean) ==
    LET r_clip == r_clip_of(R, key, r, low, high)
        w0     == first_pass(R, key, r_clip)
        w      == IF enforce_unit_mean THEN second_pass(R, key, w0) ELSE w0
    IN  [x \in R |-> [r |-> r[x], w |-> w[x], r_winsor |-> r_clip[x]]]

(* ------------- compute_w of the older builders, LP (old) --------------- *)

\* defaults of --winsor_lower / --winsor_upper
winsor_lower == <<1, 100>>

winsor_upper == <<99, 100>>

\* a missing entry of an object column (None), and the text numpy writes for
\* np.nan when np.where mixes it with a string
None == "None"

nan_text == "nan"

quarter_from_month(m) == Quarters[((m - 1) \div 3) + 1]

\* np.maximum and np.minimum on two non-missing numbers
maximum(a, b) == IF lt(a, b) THEN b ELSE a

minimum(a, b) == IF lt(b, a) THEN b ELSE a

\* Series.combine_first: the left value unless it is missing
combine_first(a, b) == IF notna(a) THEN a ELSE b

combine_first_obj(a, b) == IF a # None THEN a ELSE b

\* groupwise winsorisation without a small-group rule (from_normalized, v3)
winsorize_group(R, key, col, lower, upper) ==
    LET qs == group_quantiles(R, key, col, lower, upper)
    IN  Column([x \in R |->
            LET ql == qs[key[x]].q_low
                qh == qs[key[x]].q_high
                v  == IF notna(col[x]) /\ notna(ql) THEN maximum(col[x], ql) ELSE col[x]
            IN  IF notna(v) /\ notna(qh) THEN minimum(v, qh) ELSE v])

\* groupwise winsorisation, identity on groups with fewer than 3 non-NA rows (v4)
winsorize_group_safe(R, key, col, lower, upper) ==
    LET nn   == Column([k \in GroupKeys(R, key) |->
                    Cardinality({x \in GroupRows(R, key, k) : notna(col[x])})])
        mask == {x \in R : nn[key[x]] >= 3}
        qs   == group_quantiles(mask, key, col, lower, upper)
    IN  Column([x \in R |->
            IF x \notin mask THEN col[x]
            ELSE LET ql == qs[key[x]].q_low
                     qh == qs[key[x]].q_high
                     v  == IF notna(col[x]) /\ notna(ql) THEN maximum(col[x], ql) ELSE col[x]
                 IN  IF notna(v) /\ notna(qh) THEN minimum(v, qh) ELSE v])

\* np.where(teu > 0, tons / teu, np.nan)
tons_per_teu_of(tons, teu) == IF gt0(teu) THEN div(tons, teu) ELSE NaN

\* groupby(port, year, quarter)["tons_p_m"].sum(min_count=1)
agg_tons_of(QR, mq, R, tons) ==
    Column([y \in QR |->
        LET F == {x \in R : mq[x] = y /\ notna(tons[x])}
        IN  IF F = {} THEN NaN ELSE SumOver(F, tons)])

(* ------------------------------- state --------------------------------- *)

VARIABLES pc, pm, pi_q, pm_w, r_in, enforce, wr_out, tons_pm, teu_pm, teu_pq, wf, heap, files, ret, run, inp, outp

vars == <<pc, pm, pi_q, pm_w, r_in, enforce, wr_out, tons_pm, teu_pm, teu_pq, wf, heap, files, ret, run, inp, outp>>

\* (port, year) groups and the months each has a row for
Keys == {<<"Haifa", 2018>>, <<"Ashdod", 2018>>}

MonthsOf(k) == IF k[1] = "Haifa" THEN 2 .. (NMonths + 1) ELSE {2}

\* rows <<port, year, month>> of the month table
Rows == {x \in {"Haifa", "Ashdod"} \X {2018} \X (1 .. 12) :
            <<x[1], x[2]>> \in Keys /\ x[3] \in MonthsOf(<<x[1], x[2]>>)}

port_year == [x \in Rows |-> <<x[1], x[2]>>]

\* keys <<port, year, quarter>> of the quarters that have a month in Rows
QKeys == {<<x[1], x[2], q_from_m(x[3])>> : x \in Rows}

port_year_q == [y \in QKeys |-> <<y[1], y[2]>>]

\* a row of pm: the inner merge of S1 port-month tons and S2 port-month TEU
PMObs == {[tons_port_m |-> t, TEU_port_m |-> 1] : t \in 0 .. MaxTons}
            \cup {[tons_port_m |-> 1, TEU_port_m |-> 0]}

\* Pi_port_q after the left merge on (port, year, quarter): NaN when no row matches
PiVals == {NaN, Num(1), Num(2)}

\* r = np.where((tons_port_m > 0) & (TEU_port_m > 0), tons_port_m / TEU_port_m, nan)
ratio(tons, teu) == IF tons > 0 /\ teu > 0 THEN Frac(tons, teu) ELSE NaN

build_monthly_port_lp(pm_in, pi) ==
    LET r  == Column([x \in Rows |-> ratio(pm_in[x].tons_port_m, pm_in[x].TEU_port_m)])
        wr == winsor_rebase(Rows, port_year, r, winsor_low, winsor_high, TRUE)
    IN  [x \in Rows |->
            LET Pi_port_q == pi[<<x[1], x[2], q_from_m(x[3])>>]
            IN  [r         |-> wr[x].r,
                 w         |-> wr[x].w,
                 r_winsor  |-> wr[x].r_winsor,
                 w_source  |-> "monthly",
                 quarter   |-> q_from_m(x[3]),
                 Pi_port_q |-> Pi_port_q,
                 LP_mix    |-> mul(wr[x].w, Pi_port_q)]]

\* the quarter key <<port, year, quarter>> of each month row
month_quarter == [x \in Rows |-> <<x[1], x[2], quarter_from_month(x[3])>>]

\* teu_pq.empty: the quarterly TEU table has no row
teu_pq_empty(teu_q) == \A y \in QKeys : isna(teu_q[y])

\* compute_w of build_lp_from_normalized.py, monthly path: the frame w_m
w_m_normalized(tons, teu_m) ==
    Only({ Only({ Only({
        [x \in Rows |->
            LET m == mean_by_py[port_year[x]]
                    w == IF eq0(m) \/ isna(m) THEN Num(1) ELSE div(r_winsor[x], m)
            IN  [tons_per_teu  |-> tons_per_teu[x],
                 r_winsor      |-> r_winsor[x],
                 w_p_m         |-> w,
                 w_src_monthly |-> IF notna(tons_per_teu[x]) THEN "monthly" ELSE None]]
        : mean_by_py \in {group_mean(Rows, port_year, r_winsor)} })
        : r_winsor \in {winsorize_group(Rows, port_year, tons_per_teu, winsor_lower, winsor_upper)} })
        : tons_per_teu \in {Column([x \in Rows |-> tons_per_teu_of(tons[x], teu_m[x])])} })

\* compute_w of build_lp_from_normalized.py, quarterly fallback: the table rq with w_p_q
rq_normalized(tons, teu_q) ==
    Only({ Only({ Only({ Only({
        [y \in QKeys |->
            LET m == mean_by_pyq[port_year_q[y]]
            IN  IF eq0(m) \/ isna(m) THEN Num(1) ELSE div(r_q_win[y], m)]
        : mean_by_pyq \in {group_mean(QKeys, port_year_q, r_q_win)} })
        : r_q_win \in {winsorize_group(QKeys, port_year_q, r_q, winsor_lower, winsor_upper)} })
        : r_q \in {Column([y \in QKeys |-> tons_per_teu_of(agg_tons[y], teu_q[y])])} })
        : agg_tons \in {agg_tons_of(QKeys, month_quarter, Rows, tons)} })

\* compute_w of build_lp_from_normalized.py, quarterly fallback broadcast to months: the frame w_qm
w_qm_normalized(tons, teu_q) ==
    Only({
        [x \in Rows |->
            [w_from_q        |-> w_p_q[month_quarter[x]],
             w_src_quarterly |-> IF notna(w_p_q[month_quarter[x]]) THEN "quarterly" ELSE None]]
        : w_p_q \in {rq_normalized(tons, teu_q)} })

\* compute_w of build_lp_from_normalized.py: the merged frame wf before its last projection
compute_w_normalized(tons, teu_m, teu_q) ==
    Only({ Only({
        [x \in Rows |->
            [tons_per_teu |-> w_m[x].tons_per_teu,
             r_winsor     |-> w_m[x].r_winsor,
             w_p_m        |-> w_m[x].w_p_m,
             w_from_q     |-> w_qm[x].w_from_q,
             w_final      |-> combine_first(w_m[x].w_p_m, w_qm[x].w_from_q),
             w_source     |-> combine_first_obj(w_m[x].w_src_monthly, w_qm[x].w_src_quarterly)]]
        : w_qm \in {w_qm_normalized(tons, teu_q)} })
        : w_m \in {w_m_normalized(tons, teu_m)} })

\* compute_w of build_lp_mixedfreq_v3.py, monthly path: the frame w_m
w_m_v3(tons, teu_m) ==
    Only({ Only({ Only({
        [x \in Rows |->
            LET m == mean_by_py[port_year[x]]
                    w == IF eq0(m) \/ isna(m) THEN NaN ELSE div(r_winsor[x], m)
            IN  [tons_per_teu  |-> tons_per_teu[x],
                 r_winsor      |-> r_winsor[x],
                 w_p_m         |-> w,
                 w_src_monthly |-> IF notna(w) THEN "monthly" ELSE None]]
        : mean_by_py \in {group_mean(Rows, port_year, r_winsor)} })
        : r_winsor \in {winsorize_group(Rows, port_year, tons_per_teu, winsor_lower, winsor_upper)} })
        : tons_per_teu \in {Column([x \in Rows |-> tons_per_teu_of(tons[x], teu_m[x])])} })

\* compute_w of build_lp_mixedfreq_v3.py, quarterly fallback: the table rq with w_p_q
rq_v3(tons, teu_q) ==
    Only({ Only({ Only({ Only({
        [y \in QKeys |->
            LET m == mean_by_pyq[port_year_q[y]]
            IN  IF eq0(m) \/ isna(m) THEN NaN ELSE div(r_q_win[y], m)]
        : mean_by_pyq \in {group_mean(QKeys, port_year_q, r_q_win)} })
        : r_q_win \in {winsorize_group(QKeys, port_year_q, r_q, winsor_lower, winsor_upper)} })
        : r_q \in {Column([y \in QKeys |-> tons_per_teu_of(agg_tons[y], teu_q[y])])} })
        : agg_tons \in {agg_tons_of(QKeys, month_quarter, Rows, tons)} })

\* compute_w of build_lp_mixedfreq_v3.py, quarterly fallback broadcast to months: the frame w_qm
w_qm_v3(tons, teu_q) ==
    IF teu_pq_empty(teu_q)
    THEN [x \in Rows |-> [w_from_q |-> NaN, w_src_quarterly |-> None]]
    ELSE Only({
        [x \in Rows |->
            [w_from_q        |-> w_p_q[month_quarter[x]],
             w_src_quarterly |-> IF notna(w_p_q[month_quarter[x]]) THEN "quarterly" ELSE None]]
        : w_p_q \in {rq_v3(tons, teu_q)} })

\* compute_w of build_lp_mixedfreq_v3.py: the merged frame wf before its last projection
compute_w_v3(tons, teu_m, teu_q) ==
    Only({ Only({
        [x \in Rows |->
            [tons_per_teu |-> w_m[x].tons_per_teu,
             r_winsor     |-> w_m[x].r_winsor,
             w_p_m        |-> w_m[x].w_p_m,
             w_from_q     |-> w_qm[x].w_from_q,
             w_final      |-> combine_first(w_m[x].w_p_m, w_qm[x].w_from_q),
             w_source     |-> combine_first_obj(w_m[x].w_src_monthly, w_qm[x].w_src_quarterly)]]
        : w_qm \in {w_qm_v3(tons, teu_q)} })
        : w_m \in {w_m_v3(tons, teu_m)} })

\* compute_w of build_lp_mixedfreq_v4.py, monthly path: the frame w_m
w_m_v4(tons, teu_m) ==
    Only({ Only({ Only({
        [x \in Rows |->
            LET m == mean_by_py[port_year[x]]
                    w == IF eq0(m) \/ isna(m) THEN Num(1) ELSE div(r_winsor[x], m)
                    w_p_m == IF isna(w) THEN Num(1) ELSE w
            IN  [tons_per_teu  |-> tons_per_teu[x],
                 r_winsor      |-> r_winsor[x],
                 w_p_m         |-> w_p_m,
                 w_src_monthly |-> IF notna(tons_per_teu[x]) THEN "monthly" ELSE None]]
        : mean_by_py \in {group_mean(Rows, port_year, r_winsor)} })
        : r_winsor \in {winsorize_group_safe(Rows, port_year, tons_per_teu, winsor_lower, winsor_upper)} })
        : tons_per_teu \in {Column([x \in Rows |-> tons_per_teu_of(tons[x], teu_m[x])])} })

\* compute_w of build_lp_mixedfreq_v4.py, quarterly fallback: the table rq with w_p_q
rq_v4(tons, teu_q) ==
    Only({ Only({ Only({ Only({
        [y \in QKeys |->
            LET m == mean_by_pyq[port_year_q[y]]
            IN  IF eq0(m) \/ isna(m) THEN Num(1) ELSE div(r_q_win[y], m)]
        : mean_by_pyq \in {group_mean(QKeys, port_year_q, r_q_win)} })
        : r_q_win \in {winsorize_group_safe(QKeys, port_year_q, r_q, winsor_lower, winsor_upper)} })
        : r_q \in {Column([y \in QKeys |-> tons_per_teu_of(agg_tons[y], teu_q[y])])} })
        : agg_tons \in {agg_tons_of(QKeys, month_quarter, Rows, tons)} })

\* compute_w of build_lp_mixedfreq_v4.py, quarterly fallback broadcast to months: the frame w_qm
w_qm_v4(tons, teu_q) ==
    IF teu_pq_empty(teu_q)
    THEN [x \in Rows |-> [w_from_q |-> NaN, w_src_quarterly |-> None]]
    ELSE Only({
        [x \in Rows |->
            [w_from_q        |-> w_p_q[month_quarter[x]],
             w_src_quarterly |-> IF notna(w_p_q[month_quarter[x]]) THEN "quarterly" ELSE nan_text]]
        : w_p_q \in {rq_v4(tons, teu_q)} })

\* compute_w of build_lp_mixedfreq_v4.py: the merged frame wf before its last projection
compute_w_v4(tons, teu_m, teu_q) ==
    Only({ Only({
        [x \in Rows |->
            [tons_per_teu |-> w_m[x].tons_per_teu,
             r_winsor     |-> w_m[x].r_winsor,
             w_p_m        |-> w_m[x].w_p_m,
             w_from_q     |-> w_qm[x].w_from_q,
             w_final      |-> combine_first(w_m[x].w_p_m, w_qm[x].w_from_q),
             w_source     |-> combine_first_obj(w_m[x].w_src_monthly, w_qm[x].w_src_quarterly)]]
        : w_qm \in {w_qm_v4(tons, teu_q)} })
        : w_m \in {w_m_v4(tons, teu_m)} })

(* ---------- Spec: one run of build_monthly_port_lp (Stage 4A) ---------- *)

Init ==
    /\ pc = "start"
    /\ pm \in [Rows -> PMObs]
    /\ pi_q \in [QKeys -> PiVals]
    /\ pm_w = << >>
    /\ r_in = << >>
    /\ enforce = FALSE
    /\ wr_out = << >>
    /\ tons_pm = << >>
    /\ teu_pm = << >>
    /\ teu_pq = << >>
    /\ wf = << >>
    /\ heap = << >>
    /\ files = << >>
    /\ ret = 0
    /\ run = << >>
    /\ inp = << >>
    /\ outp = << >>

BuildMonthly ==
    /\ pc = "start"
    /\ pm_w' = build_monthly_port_lp(pm, pi_q)
    /\ pc' = "monthly_done"
    /\ UNCHANGED <<pm, pi_q, r_in, enforce, wr_out, tons_pm, teu_pm, teu_pq, wf, heap, files, ret, run, inp, outp>>

Next == BuildMonthly

Spec == Init /\ [][Next]_vars

(* ---- SpecFn: winsor_rebase called on a table with a ratio column ------ *)

\* the ratio column holds tons per TEU: missing or a non-negative number
RatioVals == {NaN} \cup {Num(n) : n \in 0 .. MaxRatio}

InitFn ==
    /\ pc = "fn_start"
    /\ r_in \in [Rows -> RatioVals]
    /\ enforce \in BOOLEAN
    /\ wr_out = << >>
    /\ pm = << >>
    /\ pi_q = << >>
    /\ pm_w = << >>
    /\ tons_pm = << >>
    /\ teu_pm = << >>
    /\ teu_pq = << >>
    /\ wf = << >>
    /\ heap = << >>
    /\ files = << >>
    /\ ret = 0
    /\ run = << >>
    /\ inp = << >>
    /\ outp = << >>

CallWinsorRebase ==
    /\ pc = "fn_start"
    /\ wr_out' = winsor_rebase(Rows, port_year, r_in, winsor_low, winsor_high, enforce)
    /\ pc' = "fn_done"
    /\ UNCHANGED <<pm, pi_q, pm_w, r_in, enforce, tons_pm, teu_pm, teu_pq, wf, heap, files, ret, run, inp, outp>>

NextFn == CallWinsorRebase

SpecFn == InitFn /\ [][NextFn]_vars

(* ---- SpecW: compute_w of the older builders on one set of inputs ------ *)

\* tons_p_m of a month row, in thousand tons
TonsPM == {Num(0), Num(1), Num(2)}

\* teu_p_m after the left merge of tons_pm with teu_pm: NaN when no row matches
TeuPM == {NaN, Num(1)}

\* teu_p_q after the left merge with teu_pq: NaN when no row matches
TeuPQ == {NaN, Num(1)}

InitW ==
    /\ pc = "w_start"
    /\ tons_pm \in [Rows -> TonsPM]
    /\ teu_pm \in [Rows -> TeuPM]
    /\ teu_pq \in [QKeys -> TeuPQ]
    /\ wf = << >>
    /\ pm = << >>
    /\ pi_q = << >>
    /\ pm_w = << >>
    /\ r_in = << >>
    /\ enforce = FALSE
    /\ wr_out = << >>
    /\ heap = << >>
    /\ files = << >>
    /\ ret = 0
    /\ run = << >>
    /\ inp = << >>
    /\ outp = << >>

ComputeW_normalized ==
    /\ pc = "w_start"
    /\ wf' = compute_w_normalized(tons_pm, teu_pm, teu_pq)
    /\ pc' = "w_done_normalized"
    /\ UNCHANGED <<pm, pi_q, pm_w, r_in, enforce, wr_out, tons_pm, teu_pm, teu_pq, heap, files, ret, run, inp, outp>>

ComputeW_v3 ==
    /\ pc = "w_start"
    /\ wf' = compute_w_v3(tons_pm, teu_pm, teu_pq)
    /\ pc' = "w_done_v3"
    /\ UNCHANGED <<pm, pi_q, pm_w, r_in, enforce, wr_out, tons_pm, teu_pm, teu_pq, heap, files, ret, run, inp, outp>>

ComputeW_v4 ==
    /\ pc = "w_start"
    /\ wf' = compute_w_v4(tons_pm, teu_pm, teu_pq)
    /\ pc' = "w_done_v4"
    /\ UNCHANGED <<pm, pi_q, pm_w, r_in, enforce, wr_out, tons_pm, teu_pm, teu_pq, heap, files, ret, run, inp, outp>>

NextW == ComputeW_normalized \/ ComputeW_v3 \/ ComputeW_v4

SpecW == InitW /\ [][NextW]_vars

(* ---- SpecMem: the tables of the caller across a call of the weight ---- *)
(* ---- computation; heap holds the DataFrame objects, ret the returned --- *)
(* ---- object, files the file system ------------------------------------- *)

\* the variables of the weight computations above
lp_vars == <<pm, pi_q, pm_w, r_in, enforce, wr_out, tons_pm, teu_pm, teu_pq, wf>>

\* a new DataFrame object holding frame
newframe(h, frame) == [heap |-> Append(h, frame), ref |-> Len(h) + 1]

\* binding another name to the same object instead of copying it
copy_alias(h, src) == [heap |-> h, ref |-> src]

\* DataFrame.copy(): a new object with the same columns
copy(h, src) == newframe(h, h[src])

\* DataFrame.merge(...): a new object, the left frame with the columns cols added
merge(h, left, cols) == newframe(h, cols @@ h[left])

\* df[name] = col: assignment of a column in place
setcol(h, ref, name, col) == [h EXCEPT ![ref] = (name :> col) @@ @]

\* df.drop(columns=names, inplace=True, errors='ignore')
drop(h, ref, names) == [h EXCEPT ![ref] = [c \in (DOMAIN @) \ names |-> @[c]]]

\* df[names]: a new object with the selected columns
select(h, src, names) == newframe(h, [c \in names |-> h[src][c]])

\* winsor_rebase(df, ['port','year'], 'r', low, high, enforce_unit_mean) on the heap
winsor_rebase_heap(h, df, low, high, enforce_unit_mean) ==
    Only({ Only({ Only({ Only({ Only({ Only({
        LET a == copy(h, df)
            b == merge(a.heap, a.ref,
                    ("q_low" :> [x \in Rows |-> qs[port_year[x]].q_low]) @@
                    ("q_high" :> [x \in Rows |-> qs[port_year[x]].q_high]))
            c == merge(setcol(b.heap, b.ref, "r_clip", r_clip), b.ref,
                    "r_mean" :> [x \in Rows |-> r_mean[port_year[x]]])
            d == setcol(setcol(c.heap, c.ref, "w", w0), c.ref, "r_winsor", r_clip)
            e == IF enforce_unit_mean
                 THEN LET f == merge(d, c.ref, "w_mean" :> [x \in Rows |-> w_mean[port_year[x]]])
                      IN  [heap |-> drop(setcol(f.heap, f.ref, "w", w1), f.ref, {"w_mean"}),
                           ref  |-> f.ref]
                 ELSE [heap |-> d, ref |-> c.ref]
        IN  [heap |-> drop(e.heap, e.ref, {"q_low", "q_high", "r_clip", "r_mean"}),
             ref  |-> e.ref]
        : w1 \in {second_pass(Rows, port_year, w0)} })
        : w_mean \in {group_mean(Rows, port_year, w0)} })
        : w0 \in {first_pass(Rows, port_year, r_clip)} })
        : r_mean \in {group_mean(Rows, port_year, r_clip)} })
        : r_clip \in {r_clip_of(Rows, port_year, h[df]["r"], low, high)} })
        : qs \in {group_quantiles(Rows, port_year, h[df]["r"], low, high)} })

\* compute_w(tons_pm, teu_pm, teu_pq) of build_lp_mixedfreq_v4.py on the heap
compute_w_heap(h, tons, teu_m, teu_q) ==
    Only({ Only({ Only({ Only({
        LET a    == merge(h, tons, h[teu_m])
            h1   == setcol(setcol(setcol(setcol(a.heap, a.ref,
                        "tons_per_teu", [x \in Rows |-> w_m[x].tons_per_teu]),
                        a.ref, "r_winsor", [x \in Rows |-> w_m[x].r_winsor]),
                        a.ref, "w_p_m", [x \in Rows |-> w_m[x].w_p_m]),
                        a.ref, "w_src_monthly", [x \in Rows |-> w_m[x].w_src_monthly])
            q    == IF teu_pq_empty(h[teu_q]["teu_p_q"])
                    THEN LET b == select(h1, tons, {"tons_p_m"})
                             c == copy(b.heap, b.ref)
                         IN  [heap |-> setcol(setcol(c.heap, c.ref,
                                        "w_from_q", [x \in Rows |-> NaN]),
                                        c.ref, "w_src_quarterly", [x \in Rows |-> None]),
                              ref  |-> c.ref]
                    ELSE LET b == copy(h1, tons)
                             g == newframe(setcol(b.heap, b.ref, "quarter", month_quarter),
                                        "tons_p_m" :> agg_tons)
                             r == merge(g.heap, g.ref, h[teu_q])
                             k == select(setcol(r.heap, r.ref, "w_p_q", w_p_q), tons, {"tons_p_m"})
                             l == copy(k.heap, k.ref)
                             m == merge(setcol(l.heap, l.ref, "quarter", month_quarter), l.ref,
                                        "w_from_q" :> [x \in Rows |-> w_qm[x].w_from_q])
                         IN  [heap |-> setcol(m.heap, m.ref, "w_src_quarterly",
                                        [x \in Rows |-> w_qm[x].w_src_quarterly]),
                              ref  |-> m.ref]
            f    == merge(q.heap, a.ref, q.heap[q.ref])
            h2   == setcol(setcol(f.heap, f.ref,
                        "w_final", [x \in Rows |-> combine_first(w_m[x].w_p_m, w_qm[x].w_from_q)]),
                        f.ref, "w_source", [x \in Rows |->
                            combine_first_obj(w_m[x].w_src_monthly, w_qm[x].w_src_quarterly)])
        IN  select(h2, f.ref, {"w_final", "w_source"})
        : w_p_q \in {rq_v4(h[tons]["tons_p_m"], h[teu_q]["teu_p_q"])} })
        : agg_tons \in {agg_tons_of(QKeys, month_quarter, Rows, h[tons]["tons_p_m"])} })
        : w_qm \in {w_qm_v4(h[tons]["tons_p_m"], h[teu_q]["teu_p_q"])} })
        : w_m \in {w_m_v4(h[tons]["tons_p_m"], h[teu_m]["teu_p_m"])} })

InitMem ==
    /\ \/ /\ pc = "call_winsor_rebase"
          /\ enforce \in BOOLEAN
          /\ heap \in {<<"r" :> r>> : r \in [Rows -> RatioVals]}
       \/ /\ pc = "call_compute_w"
          /\ enforce = FALSE
          /\ heap \in {<<"tons_p_m" :> t, "teu_p_m" :> m, "teu_p_q" :> q>> :
                        t \in [Rows -> TonsPM], m \in [Rows -> TeuPM], q \in [QKeys -> TeuPQ]}
    /\ ret = 0
    /\ files = << >>
    /\ pm = << >>
    /\ pi_q = << >>
    /\ pm_w = << >>
    /\ r_in = << >>
    /\ wr_out = << >>
    /\ tons_pm = << >>
    /\ teu_pm = << >>
    /\ teu_pq = << >>
    /\ wf = << >>
    /\ run = << >>
    /\ inp = << >>
    /\ outp = << >>

WinsorRebaseCall ==
    /\ pc = "call_winsor_rebase"
    /\ \E out \in {winsor_rebase_heap(heap, 1, winsor_low, winsor_high, enforce)} :
        /\ heap' = out.heap
        /\ ret' = out.ref
    /\ pc' = "returned"
    /\ UNCHANGED <<lp_vars, files, run, inp, outp>>

ComputeWCall ==
    /\ pc = "call_compute_w"
    /\ \E out \in {compute_w_heap(heap, 1, 2, 3)} :
        /\ heap' = out.heap
        /\ ret' = out.ref
    /\ pc' = "returned"
    /\ UNCHANGED <<lp_vars, files, run, inp, outp>>

NextMem == WinsorRebaseCall \/ ComputeWCall

SpecMem == InitMem /\ [][NextMem]_vars

(* ---- SpecRun: successive runs of Build_LP_Panel_S4.py and of ---------- *)
(* ---- build_lp_mixadjusted_qflex_v3.py over one file system; a file ---- *)
(* ---- holds <<n>> when run n wrote it last, <<0>> when it is older ----- *)

MaxRuns == 2

Absent == << >>

exists(fs, path) == fs[path] # Absent

to_csv(fs, path, df) == [fs EXCEPT ![path] = df]

S4Outputs ==
    << "LP_Haifa_port_month.tsv", "LP_Ashdod_port_month.tsv", "S4A_qa.tsv",
       "LP_Ashdod_HCT_quarter.tsv", "S4B_qa.tsv", "S4/qa_lp_report.tsv", "_meta_s4.json" >>

QflexTables ==
    << "LP_port_month_mixadjusted.tsv", "LP_terminal_month_mixadjusted.tsv",
       "LP_port_month_identity.tsv", "LP_panel.tsv", "qa_lp_report.tsv",
       "qa_lp_terminals_coverage.tsv" >>

out_meta == "_meta_lp_mixadjusted.json"

Range(s) == {s[i] : i \in DOMAIN s}

Outputs(script) ==
    IF script = "S4" THEN Range(S4Outputs) ELSE Range(QflexTables) \cup {out_meta}

Paths == Outputs("S4") \cup Outputs("qflex")

write_tsv_ignore_force(fs, path, df, force) ==
    IF exists(fs, path)
    THEN [fs |-> fs, raised |-> "FileExistsError"]
    ELSE [fs |-> to_csv(fs, path, df), raised |-> None]

write_tsv(fs, path, df, force) ==
    IF (~force) /\ exists(fs, path)
    THEN [fs |-> fs, raised |-> "FileExistsError"]
    ELSE [fs |-> to_csv(fs, path, df), raised |-> None]

RECURSIVE qflex_writes(_, _, _, _)
qflex_writes(fs, paths, df, force) ==
    IF paths = << >>
    THEN [fs |-> fs, raised |-> None]
    ELSE Only({ IF s.raised # None THEN s
                ELSE qflex_writes(s.fs, Tail(paths), df, force)
                : s \in {write_tsv(fs, Head(paths), df, force)} })

qflex_main(fs, df, force) ==
    Only({ IF s.raised # None THEN s
           ELSE [fs |-> to_csv(s.fs, out_meta, df), raised |-> None]
           : s \in {qflex_writes(fs, QflexTables, df, force)} })

RECURSIVE S4_writes(_, _, _)
S4_writes(fs, paths, df) ==
    IF paths = << >> THEN fs
    ELSE S4_writes(to_csv(fs, Head(paths), df), Tail(paths), df)

S4_main(fs, df) == [fs |-> S4_writes(fs, S4Outputs, df), raised |-> None]

Existing(fs, script) == {p \in Outputs(script) : exists(fs, p)}

InitRun ==
    /\ pc = "shell"
    /\ \E old \in SUBSET Outputs("qflex"), s4_old \in BOOLEAN :
         files = [p \in Paths |->
                    IF p \in old \/ (s4_old /\ p \in Outputs("S4")) THEN <<0>> ELSE Absent]
    /\ run = [script |-> None, force |-> FALSE, n |-> 0, existed |-> {}, raised |-> None]
    /\ inp = << >>
    /\ outp = << >>
    /\ heap = << >>
    /\ ret = 0
    /\ enforce = FALSE
    /\ pm = << >>
    /\ pi_q = << >>
    /\ pm_w = << >>
    /\ r_in = << >>
    /\ wr_out = << >>
    /\ tons_pm = << >>
    /\ teu_pm = << >>
    /\ teu_pq = << >>
    /\ wf = << >>

RunS4 ==
    /\ pc = "shell"
    /\ run.n < MaxRuns
    /\ \E s \in {S4_main(files, <<run.n + 1>>)} :
        /\ files' = s.fs
        /\ run' = [script |-> "S4", force |-> FALSE, n |-> run.n + 1,
                   existed |-> Existing(files, "S4"), raised |-> s.raised]
    /\ UNCHANGED <<pc, lp_vars, heap, ret, inp, outp>>

RunQflex ==
    /\ pc = "shell"
    /\ run.n < MaxRuns
    /\ \E force \in BOOLEAN :
       \E s \in {qflex_main(files, <<run.n + 1>>, force)} :
        /\ files' = s.fs
        /\ run' = [script |-> "qflex", force |-> force, n |-> run.n + 1,
                   existed |-> Existing(files, "qflex"), raised |-> s.raised]
    /\ UNCHANGED <<pc, lp_vars, heap, ret, inp, outp>>

NextRun == RunS4 \/ RunQflex

SpecRun == InitRun /\ [][NextRun]_vars

(* ---- SpecCols: one run of build_lp_mixedfreq_v4.py, of ----------------- *)
(* ---- normalize_supply_inputs.py or of Build_LP_Panel_S1_Tons.py on an -- *)
(* ---- input file whose header is inp.cols; run is what the run raised, -- *)
(* ---- printed and exited with ------------------------------------------- *)

L_ProxyHeader ==
    << "port", "terminal", "year", "month", "l_hours_i_m", "teu_i_m", "pi_teu_per_hour_i_y" >>

TeuHeader == << "Port", "Freq", "MonthIndex", "Period", "Year", "TEU" >>

TonsHeader == << "PortOrTerminal", "Month-Year", "tons_k" >>

Substr ==
    { <<"port", "port">>, <<"terminal", "terminal">>, <<"year", "year">>,
      <<"month", "month">>, <<"mo", "month">>,
      <<"l_hours_i_m", "l_hours_i_m">>, <<"l_hours", "l_hours_i_m">>,
      <<"hours_i_m", "l_hours_i_m">>, <<"hours", "l_hours_i_m">>,
      <<"teu_i_m", "teu_i_m">>, <<"teu", "teu_i_m">>, <<"teu", "pi_teu_per_hour_i_y">>,
      <<"pi_teu_per_hour_i_y", "pi_teu_per_hour_i_y">>, <<"pi", "pi_teu_per_hour_i_y">> }

Same == {<<c, c>> : c \in Range(L_ProxyHeader)}

Header(header, cols) == SelectSeq(header, LAMBDA c : c \in cols)

FirstMatch(columns, wanted, rel) ==
    LET hits == {h \in (DOMAIN wanted) \X (DOMAIN columns) : <<wanted[h[1]], columns[h[2]]>> \in rel}
    IN  IF hits = {} THEN None
        ELSE columns[(CHOOSE h \in hits : \A k \in hits :
                        h[1] < k[1] \/ (h[1] = k[1] /\ h[2] <= k[2]))[2]]

pick_cols(columns, wanted) ==
    IF FirstMatch(columns, wanted, Same) # None
    THEN FirstMatch(columns, wanted, Same)
    ELSE FirstMatch(columns, wanted, Substr)

load_L_proxy(columns) ==
    LET port_col == pick_cols(columns, <<"port">>)
        term_col == pick_cols(columns, <<"terminal">>)
        year_col == pick_cols(columns, <<"year", "yr">>)
        month_col == pick_cols(columns, <<"month", "mo">>)
        l_hours_col == pick_cols(columns, <<"l_hours_i_m", "l_hours", "hours_i_m", "hours", "labor_hours">>)
        teu_i_m_col == pick_cols(columns, <<"teu_i_m", "teu_terminal", "teu_m_terminal", "teu_i_month", "teu">>)
        pi_col == pick_cols(columns, <<"pi_teu_per_hour_i_y", "pi_i_y", "pi">>)
    IN  IF port_col = None /\ term_col = None
        THEN [raised |-> "ValidationError", g |-> << >>]
        ELSE IF year_col = None \/ month_col = None
        THEN [raised |-> "KeyError", g |-> << >>]
        ELSE [raised |-> None,
              g |-> [port |-> IF port_col # None THEN port_col ELSE term_col,
                     terminal |-> IF term_col # None THEN term_col ELSE "NA",
                     year |-> year_col,
                     month |-> month_col,
                     l_hours_i_m |-> IF l_hours_col # None THEN l_hours_col ELSE nan_text,
                     teu_i_m |-> IF teu_i_m_col # None THEN teu_i_m_col ELSE nan_text,
                     pi_teu_per_hour_i_y |-> IF pi_col # None THEN pi_col ELSE nan_text]]

validate_inputs(l_proxy, dup_L) ==
    LET msgs == {col \in Range(L_ProxyHeader) : col \notin DOMAIN l_proxy}
    IN  [ok |-> msgs = {} /\ ~dup_L,
         report |-> IF msgs # {} THEN "[L_Proxy] Missing column"
                    ELSE IF dup_L THEN "[L_Proxy] Duplicate keys"
                    ELSE "All validations passed."]

main_v4(columns, validate_only, several_terminals) ==
    LET loaded == load_L_proxy(columns)
        v == validate_inputs(loaded.g, loaded.g.terminal = "NA" /\ several_terminals)
    IN  IF loaded.raised = "ValidationError"
        THEN [raised |-> "ValidationError", printed |-> "[VALIDATION ERROR]", exit |-> "1"]
        ELSE IF loaded.raised # None
        THEN [raised |-> loaded.raised, printed |-> "[UNEXPECTED ERROR]", exit |-> "1"]
        ELSE IF ~v.ok
        THEN [raised |-> None, printed |-> v.report, exit |-> "1"]
        ELSE IF validate_only
        THEN [raised |-> None, printed |-> v.report, exit |-> "0"]
        ELSE [raised |-> None, printed |-> v.report, exit |-> "continues"]

resolve_one(columns, candidates) ==
    FirstMatch(columns, candidates, {<<c, c>> : c \in Range(TeuHeader)})

normalize_teu_strict_columns(columns) ==
    LET port0 == resolve_one(columns, <<"Port">>)
        port_col == IF port0 # None THEN port0 ELSE "Port"
        period_col == resolve_one(columns, <<"Period", "Month-Year">>)
        freq0 == resolve_one(columns, <<"Freq", "Frequency">>)
        freq_col == IF freq0 # None THEN freq0 ELSE "Freq"
        ym_col == resolve_one(columns, <<"MonthIndex", "YYYYMM">>)
        teu0 == resolve_one(columns, <<"TEU">>)
        teu1 == resolve_one(columns, <<"TEU_thousands", "TEU_thousand">>)
        teu_col == IF teu0 # None THEN teu0 ELSE IF teu1 # None THEN teu1 ELSE "TEU"
        missing == (IF port_col = None THEN {"Port"} ELSE {})
                   \cup (IF freq_col = None THEN {"Freq/Frequency"} ELSE {})
                   \cup (IF ym_col = None /\ period_col = None THEN {"MonthIndex or Period"} ELSE {})
                   \cup (IF teu_col = None THEN {"TEU or TEU_thousands"} ELSE {})
    IN  IF missing # {}
        THEN [raised |-> "ValueError", printed |-> "[TEU] Missing required columns", exit |-> "1"]
        ELSE IF {port_col, teu_col, freq_col} \subseteq Range(columns)
        THEN [raised |-> None, printed |-> None, exit |-> "continues"]
        ELSE [raised |-> "KeyError", printed |-> "Traceback: KeyError", exit |-> "1"]

load_tons_build_tables_columns(columns) ==
    LET required_cols == {"PortOrTerminal", "Month-Year", "tons_k"}
        missing == required_cols \ Range(columns)
    IN  IF missing # {}
        THEN [raised |-> "SystemExit", printed |-> "[FATAL] tons file missing columns", exit |-> "1"]
        ELSE [raised |-> None, printed |-> None, exit |-> "continues"]

Required(script) ==
    IF script = "v4" THEN Range(L_ProxyHeader)
    ELSE IF script = "normalizer" THEN {"Port", "Freq", "TEU"}
    ELSE Range(TonsHeader)

ScriptErrors == {"ValidationError", "ValueError", "SystemExit"}

InitCols ==
    /\ pc = "command"
    /\ \/ \E cols \in SUBSET Range(L_ProxyHeader), vo \in BOOLEAN, st \in BOOLEAN :
            inp = [script |-> "v4", cols |-> cols, validate_only |-> vo, several_terminals |-> st]
       \/ \E cols \in SUBSET Range(TeuHeader) :
            inp = [script |-> "normalizer", cols |-> cols, validate_only |-> FALSE, several_terminals |-> FALSE]
       \/ \E cols \in SUBSET Range(TonsHeader) :
            inp = [script |-> "S1", cols |-> cols, validate_only |-> FALSE, several_terminals |-> FALSE]
    /\ run = << >>
    /\ files = << >>
    /\ outp = << >>
    /\ heap = << >>
    /\ ret = 0
    /\ enforce = FALSE
    /\ pm = << >>
    /\ pi_q = << >>
    /\ pm_w = << >>
    /\ r_in = << >>
    /\ wr_out = << >>
    /\ tons_pm = << >>
    /\ teu_pm = << >>
    /\ teu_pq = << >>
    /\ wf = << >>

MainV4 ==
    /\ pc = "command"
    /\ inp.script = "v4"
    /\ run' = main_v4(Header(L_ProxyHeader, inp.cols), inp.validate_only, inp.several_terminals)
    /\ pc' = "ended"
    /\ UNCHANGED <<lp_vars, heap, ret, files, inp, outp>>

MainNormalizer ==
    /\ pc = "command"
    /\ inp.script = "normalizer"
    /\ run' = normalize_teu_strict_columns(Header(TeuHeader, inp.cols))
    /\ pc' = "ended"
    /\ UNCHANGED <<lp_vars, heap, ret, files, inp, outp>>

MainS1 ==
    /\ pc = "command"
    /\ inp.script = "S1"
    /\ run' = load_tons_build_tables_columns(Header(TonsHeader, inp.cols))
    /\ pc' = "ended"
    /\ UNCHANGED <<lp_vars, heap, ret, files, inp, outp>>

NextCols == MainV4 \/ MainNormalizer \/ MainS1

SpecCols == InitCols /\ [][NextCols]_vars

(* ---- SpecPart: one call of winsorize_group (from_normalized), of ------- *)
(* ---- winsorize_group_safe (v4) or of winsor_rebase (S4) on a table ----- *)
(* ---- with the rows inp.R, which may be none --------------------------- *)

\* the columns of groupby(by)[col].quantile([lower, upper]).unstack(level=-1)
\* after the rename: one per quantile that labels at least one row of the
\* stacked result, so none when the table has no group
unstack_columns(R, key) == IF GroupKeys(R, key) = {} THEN {} ELSE {"q_low", "q_high"}

winsorize_group_call(R, key, col, lower, upper) ==
    IF R = {} THEN [raised |-> None, out |-> << >>]
    ELSE IF ~({"q_low", "q_high"} \subseteq unstack_columns(R, key))
    THEN [raised |-> "KeyError", out |-> << >>]
    ELSE [raised |-> None, out |-> winsorize_group(R, key, col, lower, upper)]

winsorize_group_safe_call(R, key, col, lower, upper) ==
    IF R = {} THEN [raised |-> None, out |-> << >>]
    ELSE LET mask == {x \in R : Cardinality({y \in GroupRows(R, key, key[x]) : notna(col[y])}) >= 3}
         IN  IF mask # {} /\ ~({"q_low", "q_high"} \subseteq unstack_columns(mask, key))
             THEN [raised |-> "KeyError", out |-> << >>]
             ELSE [raised |-> None, out |-> winsorize_group_safe(R, key, col, lower, upper)]

winsor_rebase_call(R, key, r, low, high, enforce_unit_mean) ==
    IF ~({"q_low", "q_high"} \subseteq unstack_columns(R, key))
    THEN [raised |-> "KeyError", out |-> << >>]
    ELSE [raised |-> None, out |-> winsor_rebase(R, key, r, low, high, enforce_unit_mean)]

PartRows == {R \in SUBSET Rows : Cardinality(R) <= 3}

InitPart ==
    /\ pc = "part_call"
    /\ \E R \in PartRows : \E r \in [R -> {NaN, Num(1), Num(2)}] : inp = [R |-> R, r |-> r]
    /\ run = << >>
    /\ outp = << >>
    /\ files = << >>
    /\ heap = << >>
    /\ ret = 0
    /\ enforce = FALSE
    /\ pm = << >>
    /\ pi_q = << >>
    /\ pm_w = << >>
    /\ r_in = << >>
    /\ wr_out = << >>
    /\ tons_pm = << >>
    /\ teu_pm = << >>
    /\ teu_pq = << >>
    /\ wf = << >>

CallWinsorizeGroup ==
    /\ pc = "part_call"
    /\ \E res \in {winsorize_group_call(inp.R, port_year, inp.r, winsor_lower, winsor_upper)} :
        /\ run' = [fn |-> "winsorize_group", raised |-> res.raised]
        /\ outp' = res.out
    /\ pc' = "part_done"
    /\ UNCHANGED <<lp_vars, heap, ret, files, inp>>

CallWinsorizeGroupSafe ==
    /\ pc = "part_call"
    /\ \E res \in {winsorize_group_safe_call(inp.R, port_year, inp.r, winsor_lower, winsor_upper)} :
        /\ run' = [fn |-> "winsorize_group_safe", raised |-> res.raised]
        /\ outp' = res.out
    /\ pc' = "part_done"
    /\ UNCHANGED <<lp_vars, heap, ret, files, inp>>

CallWinsorRebasePart ==
    /\ pc = "part_call"
    /\ \E res \in {winsor_rebase_call(inp.R, port_year, inp.r, winsor_low, winsor_high, TRUE)} :
        /\ run' = [fn |-> "winsor_rebase", raised |-> res.raised]
        /\ outp' = res.out
    /\ pc' = "part_done"
    /\ UNCHANGED <<lp_vars, heap, ret, files, inp>>

NextPart == CallWinsorizeGroup \/ CallWinsorizeGroupSafe \/ CallWinsorRebasePart

SpecPart == InitPart /\ [][NextPart]_vars

(* ---- SpecNorm: one run of normalize_supply_inputs.py on a TEU file ----- *)
(* ---- with the rows inp; files is the output directory ----------------- *)

\* rows of the TEU source: quarterly totals at the quarter ends, monthly rows,
\* and MonthIndex tokens whose month part is 13
TeuRows ==
    {[port |-> "Haifa", year |-> 2018, month |-> m, freq |-> "q", teu |-> 2] : m \in {3, 6, 9, 12}}
    \cup {[port |-> "Haifa", year |-> 2018, month |-> 3, freq |-> "m", teu |-> t] : t \in {1, 2}}
    \cup {[port |-> "Haifa", year |-> 2018, month |-> 4, freq |-> "m", teu |-> 1],
          [port |-> "Haifa", year |-> 2018, month |-> 13, freq |-> "m", teu |-> 1],
          [port |-> "Haifa", year |-> 2018, month |-> 13, freq |-> "q", teu |-> 1]}

NormTables ==
    << "tons_port_month.tsv", "tons_terminal_month.tsv", "teu_port_month.tsv",
       "teu_port_quarter.tsv", "l_proxy.tsv" >>

NormReports == << "_schema_map.json", "_coverage_report.tsv", "_normalizer_log.json" >>

teu_errors == "_teu_errors.tsv"

NormPaths == Range(NormTables) \cup Range(NormReports) \cup {teu_errors}

bad_month(df) == {r \in df : ~(r.month \in 1 .. 12)}

teu_m_of(df) ==
    {[port |-> r.port, year |-> r.year, month |-> r.month,
      month_index |-> r.year * 12 + r.month, teu_p_m |-> r.teu] : r \in {x \in df : x.freq = "m"}}

quarter_of_end == (3 :> "Q1") @@ (6 :> "Q2") @@ (9 :> "Q3") @@ (12 :> "Q4")

teu_q_of(df) ==
    {[port |-> r.port, year |-> r.year, quarter |-> quarter_of_end[r.month], teu_p_q |-> r.teu] :
        r \in {x \in df : x.freq = "q" /\ x.month \in {3, 6, 9, 12}}}

\* sort_values(..., teu_p_m ascending).drop_duplicates(keys, keep="first")
dedup_min(teu_m) ==
    {r \in teu_m : \A s \in teu_m :
        (s.port = r.port /\ s.year = r.year /\ s.month = r.month) => r.teu_p_m <= s.teu_p_m}

\* sort_values(..., teu_p_q descending).drop_duplicates(keys, keep="first")
dedup_max(teu_q) ==
    {r \in teu_q : \A s \in teu_q :
        (s.port = r.port /\ s.year = r.year /\ s.quarter = r.quarter) => r.teu_p_q >= s.teu_p_q}

qmap == ("Q1" :> 3) @@ ("Q2" :> 6) @@ ("Q3" :> 9) @@ ("Q4" :> 12)

\* monthly rows at a quarter end are dropped when teu_p_m >= teu_p_q * 0.999
deleak(teu_m, teu_q) ==
    IF teu_m = {} \/ teu_q = {} THEN teu_m
    ELSE {r \in teu_m : ~(\E q \in teu_q :
            /\ q.port = r.port /\ q.year = r.year /\ qmap[q.quarter] = r.month
            /\ r.teu_p_m * 1000 >= q.teu_p_q * 999)}

qa_errs(teu_m, teu_q) ==
    (IF \E r, s \in teu_m : r # s /\ r.port = s.port /\ r.year = s.year /\ r.month = s.month
     THEN {"Duplicate (port,year,month) in monthly TEU"} ELSE {})
    \cup (IF \E r, s \in teu_q : r # s /\ r.port = s.port /\ r.year = s.year /\ r.quarter = s.quarter
          THEN {"Duplicate (port,year,quarter) in quarterly TEU"} ELSE {})
    \cup (IF teu_m # {} /\ ~(\A r \in teu_m : r.month \in 1 .. 12)
          THEN {"Monthly TEU has month outside 1..12"} ELSE {})
    \cup (IF teu_m # {} /\ ~(\A r \in teu_m : r.year * 12 + r.month = r.month_index)
          THEN {"month_index mismatch in monthly TEU"} ELSE {})
    \cup (IF teu_q # {} /\ {r.quarter : r \in teu_q} \ {"Q1", "Q2", "Q3", "Q4"} # {}
          THEN {"Invalid quarter labels in quarterly TEU"} ELSE {})
    \cup (IF \E py \in {<<r.port, r.year>> : r \in teu_m \cup teu_q} :
                LET mN == Cardinality({r \in teu_m : <<r.port, r.year>> = py})
                    qN == Cardinality({r \in teu_q : <<r.port, r.year>> = py})
                IN  mN = 0 /\ qN \notin {0, 4}
          THEN {"Coverage inconsistent"} ELSE {})

normalize_teu_strict(fs, df, run_id) ==
    IF bad_month(df) # {}
    THEN [fs |-> to_csv(fs, teu_errors, run_id), raised |-> "SystemExit", teu_m |-> {}, teu_q |-> {}]
    ELSE Only({ Only({
            IF qa_errs(teu_m, teu_q) # {}
            THEN [fs |-> to_csv(fs, teu_errors, run_id), raised |-> "SystemExit", teu_m |-> {}, teu_q |-> {}]
            ELSE [fs |-> fs, raised |-> None, teu_m |-> teu_m, teu_q |-> teu_q]
            : teu_m \in {deleak(dedup_min(teu_m_of(df)), teu_q)} })
            : teu_q \in {dedup_max(teu_q_of(df))} })

RECURSIVE write_all(_, _, _)
write_all(fs, paths, run_id) ==
    IF paths = << >> THEN fs
    ELSE write_all(to_csv(fs, Head(paths), run_id), Tail(paths), run_id)

\* a main that writes the tons tables as soon as they are normalised
normalizer_main_tons_first(fs, df, run_id) ==
    Only({ IF t.raised # None
           THEN [fs |-> t.fs, raised |-> t.raised, exit |-> "1"]
           ELSE [fs |-> write_all(t.fs, NormTables \o NormReports, run_id), raised |-> None, exit |-> "0"]
           : t \in {normalize_teu_strict(write_all(fs, SubSeq(NormTables, 1, 2), run_id), df, run_id)} })

normalizer_main(fs, df, run_id) ==
    Only({ IF t.raised # None
           THEN [fs |-> t.fs, raised |-> t.raised, exit |-> "1"]
           ELSE [fs |-> write_all(t.fs, NormTables \o NormReports, run_id), raised |-> None, exit |-> "0"]
           : t \in {normalize_teu_strict(fs, df, run_id)} })

\* the QA gates of normalize_teu_strict: the month gate and the final gates
GateFails(df) ==
    \/ bad_month(df) # {}
    \/ qa_errs(deleak(dedup_min(teu_m_of(df)), dedup_max(teu_q_of(df))), dedup_max(teu_q_of(df))) # {}

InitNorm ==
    /\ pc = "normalize"
    /\ inp \in SUBSET TeuRows
    /\ \E prior \in {Absent, <<0>>} :
         files = [p \in NormPaths |-> IF p = teu_errors THEN Absent ELSE prior]
    /\ run = << >>
    /\ outp = << >>
    /\ heap = << >>
    /\ ret = 0
    /\ enforce = FALSE
    /\ pm = << >>
    /\ pi_q = << >>
    /\ pm_w = << >>
    /\ r_in = << >>
    /\ wr_out = << >>
    /\ tons_pm = << >>
    /\ teu_pm = << >>
    /\ teu_pq = << >>
    /\ wf = << >>

NormalizerMain ==
    /\ pc = "normalize"
    /\ \E s \in {normalizer_main(files, inp, <<1>>)} :
        /\ files' = s.fs
        /\ run' = [raised |-> s.raised, exit |-> s.exit]
    /\ pc' = "normalized"
    /\ UNCHANGED <<lp_vars, heap, ret, inp, outp>>

NextNorm == NormalizerMain

SpecNorm == InitNorm /\ [][NextNorm]_vars

(* ---- SpecS3: one run of Build_LP_Panel_S3_LProxy.py; inp.lproxy is the - *)
(* ---- L_Proxy table (a sequence of rows), inp.s2 the terminal-years of -- *)
(* ---- S2_terminal_quarter_teu.tsv; files holds the tables written ------- *)

TERMINAL_TO_PORT == ("Haifa-Bayport" :> "Haifa") @@ ("Ashdod-HCT" :> "Ashdod")

LProxyRows ==
    {[terminal |-> t, year |-> 2022, month |-> 1, quarter |-> q,
      L_hours_i_m |-> l, TEU_i_m |-> Num(1), share_i_p_q |-> s, Pi_teu_per_hour_i_y |-> p] :
        t \in DOMAIN TERMINAL_TO_PORT, q \in {"Q1", "Q2"}, l \in {NaN, Num(1)},
        s \in {Num(0), Num(1)}, p \in {NaN, Num(2), Num(4)}}

LProxyTables == {<< >>} \cup {<<a>> : a \in LProxyRows} \cup {<<a, b>> : a, b \in LProxyRows}

S2Used == {<<TERMINAL_TO_PORT[t], t, 2022>> : t \in DOMAIN TERMINAL_TO_PORT}

\* the key columns of the groupby that aggregates duplicates
base_key(r) ==
    <<TERMINAL_TO_PORT[r.terminal], r.terminal, r.year, r.month, r.year * 12 + r.month, r.quarter>>

\* 'sum' of agg: missing entries are skipped, 0 when nothing is left
agg_sum(S, col) == SumOver({i \in S : notna(col[i])}, col)

\* np.median of the sorted distinct non-null values
median(vals) ==
    LET n  == Cardinality(vals)
        xs == Sorted(vals, [v \in vals |-> v])
    IN  IF n = 0 THEN NaN
        ELSE IF n % 2 = 1 THEN xs[(n + 1) \div 2]
        ELSE div(add(xs[n \div 2], xs[(n \div 2) + 1]), Num(2))

collapse_pi(raw, terminal, year) ==
    LET vals == {raw[i].Pi_teu_per_hour_i_y : i \in {j \in DOMAIN raw :
                    /\ raw[j].terminal = terminal /\ raw[j].year = year
                    /\ notna(raw[j].Pi_teu_per_hour_i_y)}}
    IN  [terminal |-> terminal, year |-> year,
         Pi_teu_per_hour_i_y |-> median(vals), Pi_unique_count |-> Cardinality(vals)]

pi_tbl_of(raw) ==
    {collapse_pi(raw, ty[1], ty[2]) : ty \in {<<raw[i].terminal, raw[i].year>> : i \in DOMAIN raw}}

load_lproxy_clean(raw) ==
    Only({
        [lproxy_clean |->
            {Only({ [port |-> k[1], terminal |-> k[2], year |-> k[3], month |-> k[4],
                     month_index |-> k[5], quarter |-> k[6],
                     L_hours_i_m |-> agg_sum(G, [i \in DOMAIN raw |-> raw[i].L_hours_i_m]),
                     TEU_i_m |-> agg_sum(G, [i \in DOMAIN raw |-> raw[i].TEU_i_m]),
                     share_i_p_q |-> mean(G, [i \in DOMAIN raw |-> raw[i].share_i_p_q]),
                     Pi_teu_per_hour_i_y |->
                        (CHOOSE p \in pi_tbl : p.terminal = k[2] /\ p.year = k[3]).Pi_teu_per_hour_i_y]
                    : G \in {{i \in DOMAIN raw : base_key(raw[i]) = k}} })
             : k \in {base_key(raw[i]) : i \in DOMAIN raw}},
         pi_tbl |-> pi_tbl]
        : pi_tbl \in {pi_tbl_of(raw)} })

port_month_labor_of(lproxy_clean) ==
    {[port |-> k[1], year |-> k[2], month |-> k[3], month_index |-> k[4],
      L_hours_port_m |->
        LET G == {r \in lproxy_clean : <<r.port, r.year, r.month, r.month_index>> = k /\ notna(r.L_hours_i_m)}
        IN  IF G = {} THEN NaN ELSE SumOver(G, [r \in G |-> r.L_hours_i_m])]
     : k \in {<<r.port, r.year, r.month, r.month_index>> : r \in lproxy_clean}}

coverage_against_s2(lproxy_clean, pi_tbl, s2) ==
    LET cov == {[port |-> n[1], terminal |-> n[2], year |-> n[3],
                 months_with_labor |-> Cardinality({r.month : r \in {x \in lproxy_clean :
                                            <<x.port, x.terminal, x.year>> = n}}),
                 has_pi |-> \E p \in pi_tbl : p.terminal = n[2] /\ p.year = n[3]] : n \in s2}
    IN  [cov |-> cov, gaps |-> {c \in cov : (~c.has_pi) \/ c.months_with_labor = 0}]

S3_main(raw, s2) ==
    Only({ Only({
        ("S3_lproxy_clean.tsv" :> l.lproxy_clean)
        @@ ("S3_port_month_labor.tsv" :> port_month_labor_of(l.lproxy_clean))
        @@ ("S3_terminal_year_pi.tsv" :> l.pi_tbl)
        @@ ("S3_coverage_vs_s2.tsv" :> c.cov)
        @@ ("S3_coverage_gaps.tsv" :> c.gaps)
        @@ ("S3_qa.tsv" :>
              [unique_terminal_month |->
                    \A r, s \in l.lproxy_clean :
                        <<r.port, r.terminal, r.year, r.month>> = <<s.port, s.terminal, s.year, s.month>>
                        => r = s,
               coverage_gaps |-> c.gaps = {}])
        : c \in {coverage_against_s2(l.lproxy_clean, l.pi_tbl, s2)} })
        : l \in {load_lproxy_clean(raw)} })

InitS3 ==
    /\ pc = "s3_start"
    /\ \E raw \in LProxyTables, s2 \in SUBSET S2Used : inp = [lproxy |-> raw, s2 |-> s2]
    /\ files = << >>
    /\ run = << >>
    /\ outp = << >>
    /\ heap = << >>
    /\ ret = 0
    /\ enforce = FALSE
    /\ pm = << >>
    /\ pi_q = << >>
    /\ pm_w = << >>
    /\ r_in = << >>
    /\ wr_out = << >>
    /\ tons_pm = << >>
    /\ teu_pm = << >>
    /\ teu_pq = << >>
    /\ wf = << >>

S3Main ==
    /\ pc = "s3_start"
    /\ files' = S3_main(inp.lproxy, inp.s2)
    /\ pc' = "s3_done"
    /\ UNCHANGED <<lp_vars, heap, ret, inp, run, outp>>

NextS3 == S3Main

SpecS3 == InitS3 /\ [][NextS3]_vars

(* ---- SpecP1: one run of 01_panel1_build.py; inp.LP is LP_Panel.tsv, ---- *)
(* ---- inp.PRE is panel_port_quarter.csv; files holds what is written --- *)

\* rows of LP_Panel.tsv for Haifa 2022: port-level and terminal-level rows,
\* quarterly (quarter written "1" or "Q1") and monthly (month 1 or 2)
LPPanelRows ==
    { [level |-> "port", freq |-> "Q", port |-> "Haifa", terminal |-> None, year |-> 2022,
       month |-> NaN, quarter |-> "1", LP_mix |-> Num(2)],
      [level |-> "port", freq |-> "Q", port |-> "Haifa", terminal |-> None, year |-> 2022,
       month |-> NaN, quarter |-> "1", LP_mix |-> NaN],
      [level |-> "port", freq |-> "Q", port |-> "Haifa", terminal |-> None, year |-> 2022,
       month |-> NaN, quarter |-> "2", LP_mix |-> Num(3)],
      [level |-> "port", freq |-> "M", port |-> "Haifa", terminal |-> None, year |-> 2022,
       month |-> Num(1), quarter |-> "", LP_mix |-> Num(6)],
      [level |-> "port", freq |-> "M", port |-> "Haifa", terminal |-> None, year |-> 2022,
       month |-> Num(2), quarter |-> "", LP_mix |-> Num(8)],
      [level |-> "terminal", freq |-> "Q", port |-> "Haifa", terminal |-> "Haifa-Legacy", year |-> 2022,
       month |-> NaN, quarter |-> "1", LP_mix |-> Num(1)],
      [level |-> "terminal", freq |-> "Q", port |-> "Haifa", terminal |-> "Haifa-Bayport", year |-> 2022,
       month |-> NaN, quarter |-> "1", LP_mix |-> Num(4)],
      [level |-> "terminal", freq |-> "Q", port |-> "Haifa", terminal |-> "Haifa-Bayport", year |-> 2022,
       month |-> NaN, quarter |-> "Q1", LP_mix |-> Num(16)],
      [level |-> "terminal", freq |-> "M", port |-> "Haifa", terminal |-> "Haifa-Bayport", year |-> 2022,
       month |-> Num(1), quarter |-> "", LP_mix |-> Num(16)] }

PrePanelRows ==
    { [port |-> "Haifa", qtr |-> "2022Q1", LP |-> Num(5)],
      [port |-> "Haifa", qtr |-> "2022Q2", LP |-> Num(5)] }

out_csv == "01_panel_port_quarter_full.csv"

out_meta_p1 == "01__meta_panel_port_quarter_full.json"

\* a quarter tuple that is None
NoQ == << >>

\* parse_qstr on the labels that occur: a year and a quarter are both needed
parse_qstr(s) ==
    IF s = "2022Q1" THEN <<2022, 1>>
    ELSE IF s = "2022Q2" THEN <<2022, 2>>
    ELSE NoQ

\* pd.to_numeric(..., errors="coerce") on a quarter label
to_numeric(s) == IF s = "1" THEN Num(1) ELSE IF s = "2" THEN Num(2) ELSE NaN

build_qtuple(r) ==
    IF notna(r.month) THEN <<r.year, ((r.month[1] - 1) \div 3) + 1>>
    ELSE IF parse_qstr(r.quarter) # NoQ THEN parse_qstr(r.quarter)
    ELSE IF notna(to_numeric(r.quarter)) THEN <<r.year, to_numeric(r.quarter)[1]>>
    ELSE NoQ

qtuple_to_str(t) == ToString(t[1]) \o "Q" \o ToString(t[2])

is_terminal(r) == r.level = "terminal" \/ r.terminal # None

\* np.log and np.exp, in base 2 on the levels 1, 2, 4, 8, 16 (the base cancels
\* in exp(mean(log(x))))
log_of(x) == IF x = Num(1) THEN Num(0) ELSE IF x = Num(2) THEN Num(1)
             ELSE IF x = Num(4) THEN Num(2) ELSE IF x = Num(8) THEN Num(3) ELSE Num(4)

exp_of(e) == Num(2 ^ e[1])

\* rows with a quarter tuple and a value, keyed by (port, quarter tuple)
valued(rows) == {r \in rows : build_qtuple(r) # NoQ /\ notna(r.LP_mix)}

panel_keys(rows) == {<<r.port, build_qtuple(r)>> : r \in rows}

\* (A) LP_Panel port x quarter direct
A_of(LP) ==
    LET S == valued({r \in LP : ~is_terminal(r)})
    IN  {[port |-> k[1], qtuple |-> k[2], source |-> "LP_panel_port_quarter",
          LP |-> LET G == {r \in S : <<r.port, build_qtuple(r)>> = k}
                 IN  mean(G, [r \in G |-> r.LP_mix])] : k \in panel_keys(S)}

\* (B) LP_Panel terminal x quarter -> port x quarter (geometric mean)
B_of(LP) ==
    LET S == valued({r \in LP : is_terminal(r)})
    IN  {[port |-> k[1], qtuple |-> k[2], source |-> "LP_panel_termQ_to_portQ",
          LP |-> LET G == {r \in S : <<r.port, build_qtuple(r)>> = k}
                 IN  exp_of(mean(G, [r \in G |-> log_of(r.LP_mix)]))] : k \in panel_keys(S)}

\* (C) pre-panel
C_of(PRE) ==
    {[port |-> r.port, qtuple |-> parse_qstr(r.qtr), source |-> "pre_panel_fallback", LP |-> r.LP] :
        r \in {x \in PRE : parse_qstr(x.qtr) # NoQ /\ notna(x.LP)}}

pref(source) ==
    IF source = "LP_panel_port_quarter" THEN 2
    ELSE IF source = "LP_panel_termQ_to_portQ" THEN 1 ELSE 0

\* sort by key and descending preference, drop_duplicates(key, keep="first")
combine(A, B, C) ==
    {r \in A \cup B \cup C : \A s \in A \cup B \cup C :
        (s.port = r.port /\ s.qtuple = r.qtuple) => pref(s.source) <= pref(r.source)}

panel1_main(LP0, PRE) ==
    Only({ Only({ Only({
        IF combine(A, B, C_of(PRE)) = {}
        THEN [raised |-> "RuntimeError", files |-> << >>]
        ELSE Only({
            [raised |-> None,
             files |-> (out_csv :> out)
                       @@ (out_meta_p1 :> [LP_panel_rows |-> Cardinality(LP),
                                           A_portQ_rows |-> Cardinality(A),
                                           B_termQ_to_portQ_rows |-> Cardinality(B),
                                           C_pre_rows |-> Cardinality(C_of(PRE)),
                                           final_rows |-> Cardinality(out)])]
            : out \in {{[port |-> r.port, qtr |-> qtuple_to_str(r.qtuple), LP |-> r.LP,
                         source |-> r.source] : r \in combine(A, B, C_of(PRE))}} })
        : B \in {B_of(LP)} })
        : A \in {A_of(LP)} })
        : LP \in {{r \in LP0 : r.port \in {"Haifa", "Ashdod"}}} })

InitP1 ==
    /\ pc = "p1_start"
    /\ \E LP \in SUBSET LPPanelRows, PRE \in SUBSET PrePanelRows : inp = [LP |-> LP, PRE |-> PRE]
    /\ files = << >>
    /\ run = << >>
    /\ outp = << >>
    /\ heap = << >>
    /\ ret = 0
    /\ enforce = FALSE
    /\ pm = << >>
    /\ pi_q = << >>
    /\ pm_w = << >>
    /\ r_in = << >>
    /\ wr_out = << >>
    /\ tons_pm = << >>
    /\ teu_pm = << >>
    /\ teu_pq = << >>
    /\ wf = << >>

Panel1Main ==
    /\ pc = "p1_start"
    /\ \E s \in {panel1_main(inp.LP, inp.PRE)} :
        /\ files' = s.files
        /\ run' = [raised |-> s.raised]
    /\ pc' = "p1_done"
    /\ UNCHANGED <<lp_vars, heap, ret, inp, outp>>

NextP1 == Panel1Main

SpecP1 == InitP1 /\ [][NextP1]_vars

(* ---- SpecP4: one run of 04_build_panel_terminal_sharedpre.py; inp is --- *)
(* ---- the step-3 table (a sequence of rows, in file order) -------------- *)

KEEP_TERMS_CANON == {"Legacy", "SIPG", "HCT"}

\* terminal labels of the step-3 table: "" is an empty cell (a port-level row)
TerminalLabels == {"", "Haifa SIPG", "Bayport", "Legacy", "Other"}

Step3Rows ==
    {[port |-> "Haifa", terminal |-> t, year |-> 2021, quarter |-> 1, qtr |-> "2021Q1",
      t_index |-> 1, Y |-> y] : t \in TerminalLabels, y \in {Num(1), Num(2)}}

Step3Tables ==
    {<< >>} \cup {<<a>> : a \in Step3Rows} \cup {<<a, b>> : a, b \in Step3Rows}
    \cup {<<a, b, c>> : a, b, c \in Step3Rows}

norm_terminal(val) ==
    IF val = "" THEN ""
    ELSE IF val = "Legacy" THEN "Legacy"
    ELSE IF val \in {"Haifa SIPG", "Bayport"} THEN "SIPG"
    ELSE val

\* PORT_ENTRANT.get(p, "SIPG"): the test against seen | {"SIPG","HCT"} always passes
expected_entrant_for_port(port) == IF port = "Ashdod" THEN "HCT" ELSE "SIPG"

panel_row(r, terminal, is_synth_pre) ==
    [port |-> r.port, year |-> r.year, quarter |-> r.quarter, qtr |-> r.qtr, t_index |-> r.t_index,
     Y |-> r.Y, terminal |-> terminal, is_synth_pre |-> is_synth_pre]

RECURSIVE pre_expanded_of(_)
pre_expanded_of(df) ==
    IF df = << >> THEN << >>
    ELSE (IF norm_terminal(Head(df).terminal) = ""
          THEN << panel_row(Head(df), "Legacy", 1),
                  panel_row(Head(df), expected_entrant_for_port(Head(df).port), 1) >>
          ELSE << >>) \o pre_expanded_of(Tail(df))

RECURSIVE post_keep_of(_)
post_keep_of(df) ==
    IF df = << >> THEN << >>
    ELSE (IF norm_terminal(Head(df).terminal) \in KEEP_TERMS_CANON
          THEN << panel_row(Head(df), norm_terminal(Head(df).terminal), 0) >>
          ELSE << >>) \o post_keep_of(Tail(df))

\* a stack with the synthetic PRE rows ahead of the observed rows
stack_pre_first(post_keep, pre_expanded) == pre_expanded \o post_keep

\* pd.concat([post_keep, pre_expanded])
stack(post_keep, pre_expanded) == post_keep \o pre_expanded

panel_key(r) == <<r.port, r.terminal, r.year, r.quarter>>

\* stable sort on the key, then drop_duplicates(subset=key, keep="first"):
\* of the rows with one key, the first in stacked order stays
drop_duplicates_first(stacked) ==
    {stacked[i] : i \in {j \in DOMAIN stacked :
        \A k \in 1 .. (j - 1) : panel_key(stacked[k]) # panel_key(stacked[j])}}

sharedpre_main(df) ==
    Only({ ("04_panel_terminal_sharedpre_log.csv" :>
                {[row |-> r, tau_comp |-> NaN, tau_priv |-> NaN, nyt_ok_comp |-> NaN] : r \in final})
           @@ ("04__meta_panel_terminal_sharedpre_log.json" :>
                [n_rows |-> Cardinality(final),
                 n_pre_synth |-> Cardinality({r \in final : r.is_synth_pre = 1})])
           : final \in {drop_duplicates_first(stack(post_keep_of(df), pre_expanded_of(df)))} })

InitP4 ==
    /\ pc = "p4_start"
    /\ inp \in Step3Tables
    /\ files = << >>
    /\ run = << >>
    /\ outp = << >>
    /\ heap = << >>
    /\ ret = 0
    /\ enforce = FALSE
    /\ pm = << >>
    /\ pi_q = << >>
    /\ pm_w = << >>
    /\ r_in = << >>
    /\ wr_out = << >>
    /\ tons_pm = << >>
    /\ teu_pm = << >>
    /\ teu_pq = << >>
    /\ wf = << >>

SharedPreMain ==
    /\ pc = "p4_start"
    /\ files' = sharedpre_main(inp)
    /\ pc' = "p4_done"
    /\ UNCHANGED <<lp_vars, heap, ret, inp, run, outp>>

NextP4 == SharedPreMain

SpecP4 == InitP4 /\ [][NextP4]_vars

(* ---- SpecLpT: one call of build_lp_terminal of ------------------------- *)
(* ---- build_lp_mixadjusted_qflex_v3.py; inp.l_tm is the L_Proxy table (a - *)
(* ---- sequence of rows, in file order), inp.w_final the port-month ------ *)
(* ---- weights; outp is the table returned -------------------------------- *)

\* position of a terminal name in the order of the sort
terminal_rank(t) == IF t = "Haifa-Bayport" THEN 1 ELSE 2

LTmRows ==
    {[port |-> "Haifa", terminal |-> "Haifa-Bayport", year |-> ym[1], month |-> ym[2],
      month_index |-> ym[1] * 100 + ym[2], quarter |-> ym[3],
      teu_i_m |-> t, l_hours_i_m |-> l, pi_teu_per_hour_i_y |-> Num(2)] :
        ym \in {<<2020, 12, "Q4">>, <<2021, 1, "Q1">>, <<2021, 2, "Q1">>},
        t \in {NaN, Num(0), Num(5)}, l \in {Num(0), Num(3)}}
    \cup
    {[port |-> "Haifa", terminal |-> "Haifa-Legacy", year |-> ym[1], month |-> ym[2],
      month_index |-> ym[1] * 100 + ym[2], quarter |-> ym[3],
      teu_i_m |-> Num(5), l_hours_i_m |-> Num(3), pi_teu_per_hour_i_y |-> Num(4)] :
        ym \in {<<2020, 12, "Q4">>, <<2021, 1, "Q1">>, <<2021, 2, "Q1">>}}

LTmTables ==
    {<< >>} \cup {<<a>> : a \in LTmRows} \cup {<<a, b>> : a, b \in LTmRows}
    \cup {<<a, b, c>> : a, b, c \in LTmRows}

\* w_final tables: one row per port-month, some port-months without a row
WFinalTables ==
    { (<<"Haifa", 2020, 12>> :> Num(1)) @@ (<<"Haifa", 2021, 1>> :> <<3, 2>>)
        @@ (<<"Haifa", 2021, 2>> :> <<1, 2>>),
      (<<"Haifa", 2020, 12>> :> Num(1)) @@ (<<"Haifa", 2021, 2>> :> <<1, 2>>),
      (<<"Haifa", 2021, 1>> :> Num(1)) }

\* df_l_tm.merge(df_w_final[[port, year, month, w_final]], how="left")
merge_w_final(l_tm, w_final) ==
    [i \in DOMAIN l_tm |->
        [row |-> l_tm[i],
         w_final |-> IF <<l_tm[i].port, l_tm[i].year, l_tm[i].month>> \in DOMAIN w_final
                     THEN w_final[<<l_tm[i].port, l_tm[i].year, l_tm[i].month>>]
                     ELSE NaN]]

\* the safety backfill: the mean of the distinct w_final values of the
\* port-month, which the merge made one value, fills a missing w_final
backfill_w_final(df) ==
    [i \in DOMAIN df |->
        IF notna(df[i].w_final) THEN df[i]
        ELSE LET same == {j \in DOMAIN df :
                            /\ df[j].row.port = df[i].row.port
                            /\ df[j].row.year = df[i].row.year
                            /\ df[j].row.month = df[i].row.month
                            /\ notna(df[j].w_final)}
             IN  [df[i] EXCEPT !.w_final =
                    IF same = {} THEN NaN ELSE df[Only(same)].w_final]]

\* the key of sort_values(["port","terminal","year","month"]) as one number
sort_key(r) == terminal_rank(r.row.terminal) * 100000000 + r.row.year * 100 + r.row.month

\* the row goes ahead of the first row whose key is not smaller
RECURSIVE insert_sorted(_, _)
insert_sorted(x, s) ==
    IF s = << >> THEN <<x>>
    ELSE IF sort_key(Head(s)) >= sort_key(x) THEN <<x>> \o s
    ELSE <<Head(s)>> \o insert_sorted(x, Tail(s))

\* sort_values on several columns: rows with one key keep their order
RECURSIVE sort_values(_)
sort_values(df) ==
    IF df = << >> THEN << >> ELSE insert_sorted(Head(df), sort_values(Tail(df)))

\* (to_numeric(teu_i_m) > 0) | (to_numeric(l_hours_i_m) > 0)
has_activity(r) == gt0(r.teu_i_m) \/ gt0(r.l_hours_i_m)

\* groupby(["port","terminal"])["has_activity"].transform(cumsum > 0)
open_flag(df_sorted, i) ==
    \E j \in 1 .. i :
        /\ df_sorted[j].row.port = df_sorted[i].row.port
        /\ df_sorted[j].row.terminal = df_sorted[i].row.terminal
        /\ has_activity(df_sorted[j].row)

build_lp_terminal(w_final, l_tm) ==
    Only({ [i \in DOMAIN df_sorted |->
              [port |-> df_sorted[i].row.port, terminal |-> df_sorted[i].row.terminal,
               year |-> df_sorted[i].row.year, month |-> df_sorted[i].row.month,
               month_index |-> df_sorted[i].row.month_index, quarter |-> df_sorted[i].row.quarter,
               open_flag |-> open_flag(df_sorted, i),
               pi_teu_per_hour_i_y |-> df_sorted[i].row.pi_teu_per_hour_i_y,
               w_final |-> df_sorted[i].w_final,
               teu_i_m |-> df_sorted[i].row.teu_i_m, l_hours_i_m |-> df_sorted[i].row.l_hours_i_m,
               lp_term_month_mixadjusted |->
                    IF open_flag(df_sorted, i)
                    THEN mul(df_sorted[i].row.pi_teu_per_hour_i_y, df_sorted[i].w_final)
                    ELSE NaN]]
           : df_sorted \in {sort_values(backfill_w_final(merge_w_final(l_tm, w_final)))} })

InitLpT ==
    /\ pc = "lpt_call"
    /\ inp \in [l_tm : LTmTables, w_final : WFinalTables]
    /\ outp = << >>
    /\ files = << >>
    /\ run = << >>
    /\ heap = << >>
    /\ ret = 0
    /\ enforce = FALSE
    /\ pm = << >>
    /\ pi_q = << >>
    /\ pm_w = << >>
    /\ r_in = << >>
    /\ wr_out = << >>
    /\ tons_pm = << >>
    /\ teu_pm = << >>
    /\ teu_pq = << >>
    /\ wf = << >>

CallBuildLpTerminal ==
    /\ pc = "lpt_call"
    /\ outp' = build_lp_terminal(inp.w_final, inp.l_tm)
    /\ pc' = "lpt_done"
    /\ UNCHANGED <<lp_vars, heap, ret, inp, run, files>>

NextLpT == CallBuildLpTerminal

SpecLpT == InitLpT /\ [][NextLpT]_vars

(* ---- SpecS1: one run of Build_LP_Panel_S1_Tons.py; inp is the raw tons -- *)
(* ---- table (a sequence of rows, in file order); files holds the tables -- *)
(* ---- written, run what the run raised ----------------------------------- *)

NaT == <<0, 0>>

\* pd.to_datetime(format='%m-%Y', errors='coerce') as <<year, month>>
to_datetime(s) ==
    IF s = "03-2020" THEN <<2020, 3>>
    ELSE IF s = "04-2020" THEN <<2020, 4>>
    ELSE NaT

RawTonsRows ==
    [PortOrTerminal : {"Haifa", "Haifa SIPG", "Ashdod HCT", "Eilat"},
     MonthYear : {"03-2020", "04-2020"},
     tons_k : {NaN, Num(1), Num(2)}]
    \cup {[PortOrTerminal |-> "Haifa", MonthYear |-> "13-2020", tons_k |-> Num(1)]}

RawTonsTables ==
    {<< >>} \cup {<<a>> : a \in RawTonsRows} \cup {<<a, b>> : a, b \in RawTonsRows}
    \cup {<<a, b, c>> : a, b, c \in RawTonsRows}

term_map == ("Ashdod HCT" :> "Ashdod-HCT") @@ ("Haifa SIPG" :> "Haifa-SIPG")

\* np.where(terminal.str.startswith('Ashdod'), 'Ashdod', 'Haifa')
port_of_terminal(terminal) == IF terminal = "Ashdod-HCT" THEN "Ashdod" ELSE "Haifa"

\* sum(min_count=1): missing entries are skipped, missing when nothing is left
sum_min_count(S, col) ==
    IF {i \in S : notna(col[i])} = {} THEN NaN ELSE agg_sum(S, col)

\* the rows kept by the drop of All Ports and Eilat, with the parsed columns
S1_raw(raw) ==
    [i \in {j \in DOMAIN raw : raw[j].PortOrTerminal \notin {"All Ports", "AllPorts", "Eilat"}} |->
        [PortOrTerminal |-> raw[i].PortOrTerminal,
         dt |-> to_datetime(raw[i].MonthYear),
         tons |-> mul(raw[i].tons_k, Num(1000))]]

\* the terminal-month table
S1_term(R) ==
    LET T == {i \in DOMAIN R : R[i].PortOrTerminal \in DOMAIN term_map}
        tons == [i \in DOMAIN R |-> R[i].tons]
    IN  {[port |-> port_of_terminal(term_map[R[i].PortOrTerminal]),
          terminal |-> term_map[R[i].PortOrTerminal],
          year |-> R[i].dt[1], month |-> R[i].dt[2],
          month_index |-> R[i].dt[1] * 12 + R[i].dt[2],
          tons_i_m |-> sum_min_count({j \in T : /\ R[j].PortOrTerminal = R[i].PortOrTerminal
                                                 /\ R[j].dt = R[i].dt}, tons)] : i \in T}

\* the port rows, in file order
S1_port_rows(R) ==
    {i \in DOMAIN R : R[i].PortOrTerminal \in {"Ashdod", "Haifa"}}

\* the terminal sums by port-month, as rows
S1_term_sum(term) ==
    {[port |-> t.port, year |-> t.year, month |-> t.month,
      tons_terminal_sum_m |->
          sum_min_count({u \in term : u.port = t.port /\ u.year = t.year /\ u.month = t.month},
                        [u \in term |-> u.tons_i_m])] : t \in term}

\* a port-month table that takes the port row ahead of the terminal sum
decide_port_row_first(tons_terminal_sum_m, tons_portrow_m) ==
    [tons_port_m |-> IF notna(tons_portrow_m) THEN tons_portrow_m ELSE tons_terminal_sum_m,
     tons_source |-> IF notna(tons_portrow_m) THEN "port_row"
                     ELSE IF notna(tons_terminal_sum_m) THEN "sum_terminals" ELSE "no_source"]

\* tons_port_m and tons_source of one row of the outer join
decide_tons_port_m(tons_terminal_sum_m, tons_portrow_m) ==
    [tons_port_m |-> IF notna(tons_terminal_sum_m) THEN tons_terminal_sum_m ELSE tons_portrow_m,
     tons_source |-> IF notna(tons_terminal_sum_m) THEN "sum_terminals"
                     ELSE IF notna(tons_portrow_m) THEN "port_row" ELSE "no_source"]

\* one row of the outer join of the port rows with the terminal sums
pm_row(port, dt, tons_portrow_m, ts) ==
    Only({ [port |-> port, year |-> dt[1], month |-> dt[2], month_index |-> dt[1] * 12 + dt[2],
            quarter |-> quarter_from_month(dt[2]),
            tons_portrow_m |-> tons_portrow_m, tons_terminal_sum_m |-> ts,
            tons_port_m |-> d.tons_port_m, tons_source |-> d.tons_source]
           : d \in {decide_tons_port_m(ts, tons_portrow_m)} })

\* the rows of the join: each port row with the sum of its port-month, and
\* each sum that has no port row; Seq order is that of sort_values
S1_key_number(port, year, month) ==
    (IF port = "Ashdod" THEN 1 ELSE 2) * 10000000 + year * 100 + month

RECURSIVE S1_sorted(_)
S1_sorted(rows) ==
    IF rows = {} THEN << >>
    ELSE LET x == CHOOSE r \in rows :
                    \A s \in rows :
                        \/ S1_key_number(r.row.port, r.row.year, r.row.month)
                             < S1_key_number(s.row.port, s.row.year, s.row.month)
                        \/ /\ S1_key_number(r.row.port, r.row.year, r.row.month)
                                = S1_key_number(s.row.port, s.row.year, s.row.month)
                           /\ r.at <= s.at
         IN  <<x.row>> \o S1_sorted(rows \ {x})

S1_pm(R, term_sum) ==
    LET sum_of(port, dt) ==
            LET S == {t \in term_sum : t.port = port /\ t.year = dt[1] /\ t.month = dt[2]}
            IN  IF S = {} THEN NaN ELSE Only(S).tons_terminal_sum_m
        left == {[at |-> i, row |-> pm_row(R[i].PortOrTerminal, R[i].dt, R[i].tons,
                                            sum_of(R[i].PortOrTerminal, R[i].dt))]
                    : i \in S1_port_rows(R)}
        right == {[at |-> 0, row |-> pm_row(t.port, <<t.year, t.month>>, NaN, t.tons_terminal_sum_m)]
                    : t \in {u \in term_sum :
                                \A i \in S1_port_rows(R) :
                                    <<R[i].PortOrTerminal, R[i].dt>> # <<u.port, <<u.year, u.month>>>>}}
    IN  S1_sorted(left \cup right)

\* the rows where both sources are present
S1_examples(pm_tbl) ==
    {[port |-> r.port, year |-> r.year, month |-> r.month, month_index |-> r.month_index,
      tons_portrow_m |-> r.tons_portrow_m, tons_terminal_sum_m |-> r.tons_terminal_sum_m,
      abs_diff |-> IF lt(r.tons_terminal_sum_m, r.tons_portrow_m)
                   THEN sub(r.tons_portrow_m, r.tons_terminal_sum_m)
                   ELSE sub(r.tons_terminal_sum_m, r.tons_portrow_m),
      rel_diff |-> IF eq0(r.tons_portrow_m) THEN NaN
                   ELSE div(IF lt(r.tons_terminal_sum_m, r.tons_portrow_m)
                            THEN sub(r.tons_portrow_m, r.tons_terminal_sum_m)
                            ELSE sub(r.tons_terminal_sum_m, r.tons_portrow_m), r.tons_portrow_m)]
        : r \in {pm_tbl[i] : i \in {j \in DOMAIN pm_tbl :
                    notna(pm_tbl[j].tons_portrow_m) /\ notna(pm_tbl[j].tons_terminal_sum_m)}}}

S1_port_month(pm_tbl) ==
    [i \in DOMAIN pm_tbl |->
        [port |-> pm_tbl[i].port, year |-> pm_tbl[i].year, month |-> pm_tbl[i].month,
         month_index |-> pm_tbl[i].month_index, quarter |-> pm_tbl[i].quarter,
         tons_port_m |-> pm_tbl[i].tons_port_m, tons_source |-> pm_tbl[i].tons_source]]

S1_port_quarter(port_month) ==
    {[port |-> port_month[i].port, year |-> port_month[i].year, quarter |-> port_month[i].quarter,
      tons_port_q |-> sum_min_count({j \in DOMAIN port_month :
                                        /\ port_month[j].port = port_month[i].port
                                        /\ port_month[j].year = port_month[i].year
                                        /\ port_month[j].quarter = port_month[i].quarter},
                                    [j \in DOMAIN port_month |-> port_month[j].tons_port_m])]
        : i \in DOMAIN port_month}

load_tons_build_tables(raw) ==
    Only({ IF \E i \in DOMAIN R : R[i].dt = NaT
           THEN [raised |-> "SystemExit", printed |-> "[FATAL] Failed to parse Month-Year", tables |-> << >>]
           ELSE Only({ Only({
                  [raised |-> None, printed |-> "[S1] Wrote Stage 1 tons artifacts",
                   tables |->
                      ("S1_terminal_month_tons.tsv" :> term)
                      @@ ("S1_port_month_tons.tsv" :> S1_port_month(pm_tbl))
                      @@ ("S1_port_quarter_tons.tsv" :> S1_port_quarter(S1_port_month(pm_tbl)))
                      @@ ("S1_examples_port_precedence.tsv" :> S1_examples(pm_tbl))
                      @@ ("S1_qa.tsv" :>
                            [unique_port_month |->
                                \A i, j \in DOMAIN pm_tbl :
                                    <<pm_tbl[i].port, pm_tbl[i].month_index>>
                                        = <<pm_tbl[j].port, pm_tbl[j].month_index>> => i = j,
                             port_month_missing_tons |->
                                Cardinality({i \in DOMAIN pm_tbl : isna(pm_tbl[i].tons_port_m)})])
                      @@ ("_meta_s1.json" :>
                            [terminal_month |-> Cardinality(term), port_month |-> Len(pm_tbl),
                             examples_both_sources |-> Cardinality(S1_examples(pm_tbl))])]
                  : pm_tbl \in {S1_pm(R, S1_term_sum(term))} })
                  : term \in {S1_term(R)} })
           : R \in {S1_raw(raw)} })

InitS1 ==
    /\ pc = "s1_start"
    /\ inp \in RawTonsTables
    /\ files = << >>
    /\ run = << >>
    /\ outp = << >>
    /\ heap = << >>
    /\ ret = 0
    /\ enforce = FALSE
    /\ pm = << >>
    /\ pi_q = << >>
    /\ pm_w = << >>
    /\ r_in = << >>
    /\ wr_out = << >>
    /\ tons_pm = << >>
    /\ teu_pm = << >>
    /\ teu_pq = << >>
    /\ wf = << >>

S1Main ==
    /\ pc = "s1_start"
    /\ \E out \in {load_tons_build_tables(inp)} :
        /\ files' = out.tables
        /\ run' = [raised |-> out.raised, printed |-> out.printed]
    /\ pc' = "s1_done"
    /\ UNCHANGED <<lp_vars, heap, ret, inp, outp>>

NextS1 == S1Main

SpecS1 == InitS1 /\ [][NextS1]_vars

(* ------------------- columns of the output tables ---------------------- *)

Group(k) == GroupRows(Rows, port_year, k)

pm_col_r == [x \in Rows |-> pm_w[x].r]

pm_col_w == [x \in Rows |-> pm_w[x].w]

pm_col_r_winsor == [x \in Rows |-> pm_w[x].r_winsor]

pm_col_LP_mix == [x \in Rows |-> pm_w[x].LP_mix]

pm_col_Pi == [x \in Rows |-> pm_w[x].Pi_port_q]

wr_col_w == [x \in Rows |-> wr_out[x].w]

wr_col_r_winsor == [x \in Rows |-> wr_out[x].r_winsor]

wf_col_r_winsor == [x \in Rows |-> wf[x].r_winsor]

wf_col_w_final == [x \in Rows |-> wf[x].w_final]

Finite(G, col) == {x \in G : notna(col[x])}

(* ------------------------------ claims --------------------------------- *)

\* C1: after build_monthly_port_lp, in every (port, year) partition with at
\* least one finite ratio and a non-zero mean of clipped values, the mean of
\* the output weights w over the partition is exactly 1.
C1_UnitMean ==
    pc = "monthly_done" =>
        \A k \in Keys :
            LET r_mean == mean(Group(k), pm_col_r_winsor)
            IN  (Finite(Group(k), pm_col_r) # {} /\ notna(r_mean) /\ ~eq0(r_mean))
                    => mean(Group(k), pm_col_w) = Num(1)

\* a partition with a missing month, a clipped month and weights off 1
C1_Witness ==
    /\ pc = "monthly_done"
    /\ \E k \in Keys :
        /\ \E x \in Group(k) : isna(pm_w[x].r)
        /\ \E x \in Group(k) : notna(pm_w[x].w) /\ pm_w[x].w # Num(1)
        /\ \E x \in Group(k) : notna(pm_w[x].r) /\ pm_w[x].r_winsor # pm_w[x].r
        /\ mean(Group(k), pm_col_w) = Num(1)

\* C2 (as claimed): in every (port, year) group the mean of LP_mix = w * Pi
\* over the group's records equals the mean of Pi over the same records. Stated
\* of the groups in which every record has a weight and a baseline, so that
\* both means run over the same records.
C2_AnnualPreservation ==
    pc = "monthly_done" =>
        \A k \in Keys :
            (\A x \in Group(k) : notna(pm_w[x].LP_mix)) =>
                mean(Group(k), pm_col_LP_mix) = mean(Group(k), pm_col_Pi)

\* Stage 4: a missing ratio handed to winsor_rebase comes back as a missing w
S4_MissingPropagation ==
    pc = "monthly_done" =>
        \A x \in Rows : isna(pm_w[x].r) => isna(pm_w[x].w)

\* C3 (as claimed): a record with a missing ratio produces a missing weight,
\* whatever the other records of its partition hold. Stated of compute_w of
\* build_lp_mixedfreq_v4.py: a month without a monthly ratio and without a
\* quarterly fallback weight has a missing final weight.
C3_MissingPropagation ==
    pc = "w_done_v4" =>
        \A x \in Rows :
            (isna(wf[x].tons_per_teu) /\ isna(wf[x].w_from_q)) => isna(wf[x].w_final)

\* C4 (as claimed): in a partition with fewer than 3 finite ratios clipping is
\* skipped, so each weight is the ratio divided by the unclipped mean of the
\* partition's finite ratios.
C4_SmallGroupPassthrough ==
    pc = "monthly_done" =>
        \A k \in Keys :
            Cardinality(Finite(Group(k), pm_col_r)) < 3 =>
                \A x \in Finite(Group(k), pm_col_r) :
                    pm_w[x].w = div(pm_w[x].r, mean(Group(k), pm_col_r))

\* C5: for every record with a non-missing weight the clipped value r_winsor
\* lies between the lower and the upper quantile of the partition's finite
\* ratios (inclusive).
C5_WinsorBound ==
    pc = "monthly_done" =>
        \A k \in Keys :
            LET q_low  == quantile(Group(k), pm_col_r, winsor_low)
                q_high == quantile(Group(k), pm_col_r, winsor_high)
            IN  \A x \in Group(k) :
                    notna(pm_w[x].w) =>
                        le(q_low, pm_w[x].r_winsor) /\ le(pm_w[x].r_winsor, q_high)

\* a partition where one record was pulled up to the lower quantile and
\* another pulled down to the upper quantile
C5_Witness ==
    /\ pc = "monthly_done"
    /\ \E x, y \in Rows :
        /\ port_year[x] = port_year[y]
        /\ notna(pm_w[x].w) /\ lt(pm_w[x].r, pm_w[x].r_winsor)
        /\ notna(pm_w[y].w) /\ lt(pm_w[y].r_winsor, pm_w[y].r)

\* Stage 4: winsor_rebase leaves every weight of a zero-mean partition missing
S4_ZeroMeanMissing ==
    pc = "fn_done" =>
        \A k \in Keys :
            eq0(mean(Group(k), wr_col_r_winsor)) =>
                \A x \in Group(k) : isna(wr_out[x].w)

\* C6 (as claimed): in a partition whose mean of clipped values is zero, every
\* record's output weight is missing. Stated of the monthly weight w_p_m of
\* compute_w in build_lp_from_normalized.py and build_lp_mixedfreq_v4.py.
C6_ZeroMeanMissing ==
    pc \in {"w_done_normalized", "w_done_v4"} =>
        \A k \in Keys :
            eq0(mean(Group(k), wf_col_r_winsor)) =>
                \A x \in Group(k) : isna(wf[x].w_p_m)

\* C7 (as claimed): after the monthly-else-quarterly fallback, w_final has mean
\* 1 within every (port, year) partition that holds a weight at all, also when
\* some months take the monthly and others the quarterly weight
\* (build_lp_from_normalized.py and build_lp_mixedfreq_v3.py).
C7_FinalUnitMean ==
    pc \in {"w_done_normalized", "w_done_v3"} =>
        \A k \in Keys :
            Finite(Group(k), wf_col_w_final) # {} =>
                mean(Group(k), wf_col_w_final) = Num(1)

\* C8: applying the second-pass normalisation to weights that already went
\* through it changes nothing.
C8_SecondPassIdempotent ==
    (pc = "fn_done" /\ enforce) =>
        second_pass(Rows, port_year, wr_col_w) = wr_col_w

\* a run in which the second pass did change the first-pass weights
C8_Witness ==
    /\ pc = "fn_done" /\ enforce
    /\ \E x \in Rows :
        /\ notna(wr_out[x].w)
        /\ wr_out[x].w # winsor_rebase(Rows, port_year, r_in, winsor_low, winsor_high, FALSE)[x].w

\* C9 (as claimed): a month's final weight is the weight built from the
\* monthly tons/TEU ratio when that ratio is available, and otherwise the
\* weight built from the quarterly ratio of its quarter, broadcast to the month
\* (build_lp_mixedfreq_v4.py and build_lp_from_normalized.py).
C9_MonthlyElseQuarterly ==
    pc \in {"w_done_v4", "w_done_normalized"} =>
        \A x \in Rows :
            /\ notna(wf[x].tons_per_teu) => wf[x].w_final = wf[x].w_p_m
            /\ (isna(wf[x].tons_per_teu) /\ notna(wf[x].w_from_q))
                    => wf[x].w_final = wf[x].w_from_q

\* C10 (as claimed): w_source is "monthly" exactly when the final weight was
\* computed from the monthly ratio, and "quarterly" exactly when the final
\* weight was taken from the quarterly fallback (build_lp_mixedfreq_v4.py).
C10_Provenance ==
    pc = "w_done_v4" =>
        \A x \in Rows :
            /\ wf[x].w_source = "monthly"
                    <=> (notna(wf[x].tons_per_teu) /\ wf[x].w_final = wf[x].w_p_m)
            /\ wf[x].w_source = "quarterly"
                    <=> (isna(wf[x].tons_per_teu) /\ notna(wf[x].w_from_q)
                            /\ wf[x].w_final = wf[x].w_from_q)

\* C11: the weight computation is a pure function: a call of winsor_rebase or
\* of compute_w writes no file and leaves every table of the caller as it was
\* (same records, same values).
C11_Pure ==
    [][/\ files' = files
       /\ \A i \in 1 .. Len(heap) : heap'[i] = heap[i]]_vars

\* a call of compute_w that added the column quarter to its copy of tons_pm
\* and returned a frame of final weights
C11_Witness ==
    /\ pc = "returned"
    /\ DOMAIN heap[1] = {"tons_p_m"}
    /\ \E i \in 4 .. Len(heap) : {"tons_p_m", "quarter"} = DOMAIN heap[i]
    /\ DOMAIN heap[ret] = {"w_final", "w_source"}
    /\ \E x \in Rows : notna(heap[ret]["w_final"][x]) /\ heap[ret]["w_final"][x] # Num(1)

\* C12 as stated: a run of a script that starts with all of its output files
\* present ends without an error and leaves every one of them holding the
\* result of that run.
C12_RerunReplaces ==
    [][(run'.n = run.n + 1 /\ run'.existed = Outputs(run'.script)) =>
          /\ run'.raised = None
          /\ \A p \in Outputs(run'.script) : files'[p] = <<run'.n>>]_vars

\* C12: a run that starts with all of its output files present replaces every
\* one of them when the script is Build_LP_Panel_S4.py or the qflex builder
\* called with --force; the qflex builder without --force raises
\* FileExistsError and leaves every file as it was.
C12_RerunReplacesOrRefuses ==
    [][(run'.n = run.n + 1 /\ run'.existed = Outputs(run'.script)) =>
          IF run'.script = "S4" \/ run'.force
          THEN /\ run'.raised = None
               /\ \A p \in Outputs(run'.script) : files'[p] = <<run'.n>>
          ELSE /\ run'.raised = "FileExistsError"
               /\ files' = files]_vars

C12_Witness ==
    /\ run.n = 2
    /\ run.script = "qflex"
    /\ run.force
    /\ run.existed = Outputs("qflex")
    /\ run.raised = None
    /\ \A p \in Outputs("qflex") : files[p] = <<2>>
    /\ \E p \in Outputs("S4") : files[p] = <<1>>

\* C13: a run whose input file lacks a required column raises one of the
\* errors the script itself raises, prints a diagnostic message and exits
\* with a non-zero status.
C13_MissingColumnError ==
    (pc = "ended" /\ Required(inp.script) \ inp.cols # {}) =>
        /\ run.raised \in ScriptErrors
        /\ run.printed # None
        /\ run.exit = "1"

\* C14: a call on an input with no records raises no error and returns an
\* output with no records.
C14_EmptyInEmptyOut ==
    (pc = "part_done" /\ inp.R = {}) =>
        /\ run.raised = None
        /\ DOMAIN outp = {}

\* C15: a run of the normalizer in which a TEU QA gate fails writes
\* _teu_errors.tsv, exits with a non-zero status, and leaves every normalized
\* output table (tons, TEU, l_proxy) as it was before the run.
C15_NoPartialOutputs ==
    [][(pc = "normalize" /\ pc' = "normalized" /\ GateFails(inp)) =>
          /\ files'[teu_errors] = <<1>>
          /\ run'.exit = "1"
          /\ \A p \in Range(NormTables) : files'[p] = files[p]]_vars

C15_Witness ==
    /\ pc = "normalized"
    /\ bad_month(inp) = {}
    /\ \E r \in inp : r.freq = "m"
    /\ run.raised = "SystemExit"
    /\ files[teu_errors] = <<1>>
    /\ \A p \in Range(NormTables) : files[p] = Absent

\* C16: S3_coverage_gaps holds exactly the terminal-years used in the S2
\* terminal-quarter table for which the terminal-year Pi is missing or no
\* month of the terminal-year has a row in L_Proxy.
C16_CoverageGaps ==
    pc = "s3_done" =>
        {<<g.port, g.terminal, g.year>> : g \in files["S3_coverage_gaps.tsv"]}
        = {n \in inp.s2 :
              \/ \A i \in DOMAIN inp.lproxy :
                    (inp.lproxy[i].terminal = n[2] /\ inp.lproxy[i].year = n[3])
                    => isna(inp.lproxy[i].Pi_teu_per_hour_i_y)
              \/ ~(\E i \in DOMAIN inp.lproxy :
                    inp.lproxy[i].terminal = n[2] /\ inp.lproxy[i].year = n[3])}

\* C17: for every (port, terminal, year, month) of the input rows,
\* S3_lproxy_clean has exactly one row, holding the sum of L_hours_i_m, the
\* sum of TEU_i_m and the mean of share_i_p_q of the input rows with that key.
C17_OneRowPerTerminalMonth ==
    pc = "s3_done" =>
        \A i \in DOMAIN inp.lproxy :
            LET k == <<TERMINAL_TO_PORT[inp.lproxy[i].terminal], inp.lproxy[i].terminal,
                       inp.lproxy[i].year, inp.lproxy[i].month>>
                G == {j \in DOMAIN inp.lproxy :
                        /\ inp.lproxy[j].terminal = k[2] /\ inp.lproxy[j].year = k[3]
                        /\ inp.lproxy[j].month = k[4]}
                out == {r \in files["S3_lproxy_clean.tsv"] : <<r.port, r.terminal, r.year, r.month>> = k}
            IN  /\ Cardinality(out) = 1
                /\ \A r \in out :
                    /\ r.L_hours_i_m = agg_sum(G, [j \in DOMAIN inp.lproxy |-> inp.lproxy[j].L_hours_i_m])
                    /\ r.TEU_i_m = agg_sum(G, [j \in DOMAIN inp.lproxy |-> inp.lproxy[j].TEU_i_m])
                    /\ r.share_i_p_q = mean(G, [j \in DOMAIN inp.lproxy |-> inp.lproxy[j].share_i_p_q])

\* C18: the panel written has exactly one row per (port, quarter) that some
\* source has a value for, and that row carries the value of the first source
\* that has one: the mean of the port x quarter rows of LP_Panel, else the
\* geometric mean of its terminal x quarter rows, else the pre-panel row.
C18_PriorityCombine ==
    (pc = "p1_done" /\ run.raised = None) =>
        LET quarter_no(r) == IF r.quarter = "2" THEN 2 ELSE 1
            direct == {r \in inp.LP : r.level = "port" /\ r.freq = "Q" /\ notna(r.LP_mix)}
            term   == {r \in inp.LP : r.level = "terminal" /\ r.freq = "Q" /\ notna(r.LP_mix)}
            keys   == {<<r.port, <<r.year, quarter_no(r)>>>> : r \in direct \cup term}
                      \cup {<<r.port, parse_qstr(r.qtr)>> : r \in inp.PRE}
            value(k) ==
                LET D == {r \in direct : <<r.port, <<r.year, quarter_no(r)>>>> = k}
                    T == {r \in term : <<r.port, <<r.year, quarter_no(r)>>>> = k}
                IN  IF D # {} THEN mean(D, [r \in D |-> r.LP_mix])
                    ELSE IF T # {} THEN exp_of(mean(T, [r \in T |-> log_of(r.LP_mix)]))
                    ELSE (CHOOSE r \in inp.PRE : <<r.port, parse_qstr(r.qtr)>> = k).LP
        IN  {<<r.port, r.qtr, r.LP>> : r \in files[out_csv]}
            = {<<k[1], qtuple_to_str(k[2]), value(k)>> : k \in keys}

\* C19: no monthly row of LP_Panel contributes to the panel written: the run
\* ends as, and writes the panel of, a run on LP_Panel without its monthly rows.
C19_MonthlyDropped ==
    pc = "p1_done" =>
        LET r == panel1_main({x \in inp.LP : x.freq # "M"}, inp.PRE)
        IN  /\ run.raised = r.raised
            /\ run.raised = None => files[out_csv] = r.files[out_csv]

\* C20: for every (port, terminal, year, quarter) that both an observed POST
\* row and a synthetic PRE row carry, the final panel has exactly one row with
\* that key, and it is an observed row of that key, never the synthetic one.
C20_ObservedWins ==
    pc = "p4_done" =>
        LET post  == {post_keep_of(inp)[i] : i \in DOMAIN post_keep_of(inp)}
            pre   == {pre_expanded_of(inp)[i] : i \in DOMAIN pre_expanded_of(inp)}
            final == {f.row : f \in files["04_panel_terminal_sharedpre_log.csv"]}
        IN  \A o \in post : \A s \in pre :
                panel_key(o) = panel_key(s) =>
                    /\ Cardinality({f \in final : panel_key(f) = panel_key(o)}) = 1
                    /\ \A f \in final : panel_key(f) = panel_key(o) => (f \in post /\ f.is_synth_pre = 0)

C20_Witness ==
    /\ pc = "p4_done"
    /\ Len(inp) = 2
    /\ inp[1].terminal = "" /\ inp[1].Y = Num(1)
    /\ inp[2].terminal = "Bayport" /\ inp[2].Y = Num(2)
    /\ {f.row : f \in files["04_panel_terminal_sharedpre_log.csv"]}
        = { panel_row(inp[2], "SIPG", 0), panel_row(inp[1], "Legacy", 1) }

\* C21: in the table build_lp_terminal returns, every input row appears once;
\* a row of a month strictly before the first month in which its terminal has
\* TEU_i_m > 0 or L_hours_i_m > 0 (or of a terminal with no such month) has a
\* blank LP, and every row of that month or a later one has LP = Pi x w_final,
\* whether or not its TEU_i_m is present.
C21_BlankOnlyBeforeOpening ==
    pc = "lpt_done" =>
        /\ Len(outp) = Len(inp.l_tm)
        /\ \A i \in DOMAIN outp :
            LET active == {inp.l_tm[j].month_index : j \in {k \in DOMAIN inp.l_tm :
                                /\ inp.l_tm[k].port = outp[i].port
                                /\ inp.l_tm[k].terminal = outp[i].terminal
                                /\ (gt0(inp.l_tm[k].teu_i_m) \/ gt0(inp.l_tm[k].l_hours_i_m))}}
                before_opening == \A m \in active : outp[i].month_index < m
            IN  outp[i].lp_term_month_mixadjusted =
                    IF before_opening THEN NaN
                    ELSE mul(outp[i].pi_teu_per_hour_i_y,
                             IF <<outp[i].port, outp[i].year, outp[i].month>> \in DOMAIN inp.w_final
                             THEN inp.w_final[<<outp[i].port, outp[i].year, outp[i].month>>]
                             ELSE NaN)

====
